---- MODULE Spec2Model ----
(***************************************************************************)
(* Model of the Dashborg Go SDK connection and request-dispatch engine     *)
(* (pkg/dashcloud/dbclient.go) and of the legacy panel-request response    *)
(* buffer (pkg/dash/dash.go).                                              *)
(*                                                                         *)
(* Spec     : DashCloudClient - startClient, the external-shutdown         *)
(*            goroutine, runRequestStreamLoop, the per-frame dispatch      *)
(*            goroutines and user goroutines calling the guarded RPCs.     *)
(* FairSpec : Spec with weak fairness on the loop and the shutdown         *)
(*            goroutine.                                                   *)
(* SpecReq  : one PanelRequest and the calls made on it one after another. *)
(***************************************************************************)
EXTENDS Integers, Sequences, FiniteSets, TLC

\* ------------------------------------------------------------------ bounds
MaxReqs == 1        \* request frames accepted from the request streams
MaxConnects == 2    \* successful ConnectClient calls (distinct ConnIds)
MaxStep == 1        \* ExpoWait backoff steps that are told apart
MaxOps == 3         \* calls made on one PanelRequest

\* ------------------------------------------------------------ value sets
AppNames == {"a", "zzz"}       \* apps a request frame can name
UserApps == {"a"}              \* apps the user goroutine connects
StatusCodes == {"BadConnId", "Limit"}
NoConnId == 0       \* the empty string ConnId

VARIABLES
    \* DashCloudClient fields
    ConnId,         \* 0 is "", n > 0 is the n-th ConnId handed out by the server
    AppMap,         \* names of the apps in pc.AppMap
    DoneCh,         \* "open" or "closed"
    PermErr,
    ExitErr,        \* "nil", "ShutdownCh", "ConnShutdown", "Permanent"
    AccInfo,        \* 0 is nil, n > 0 is the AccInfo returned with ConnId n
    Conn,           \* pc.Conn: "unset", "nil", "Open" or "Shutdown"
    \* startClient followed by runRequestStreamLoop
    pc,             \* position of startClient / the reconnect loop
    inStart,        \* TRUE while sendConnectClientMessage runs for startClient
    reconApps,      \* reconApps collected by sendConnectClientMessage
    w,              \* the loop's ExpoWait
    connects,       \* number of ConnIds handed out so far
    \* goroutines
    extPc,          \* the ShutdownCh goroutine of startClient
    reqs,           \* dispatch goroutines, one per accepted frame
    nReqs,          \* frames accepted so far
    user,           \* the user goroutine
    \* observations
    sinceEnd,       \* the code runRequestStream returned last, until the
                    \* loop's next call has returned
    \* PanelRequest
    RequestType, PanelName, Path, AuthData,
    RRActions,      \* the ActionType of each buffered action
    IsDone, AuthImpl,
    wire,           \* the frames handed to SendResponse: (done, actions)
    opsLeft,        \* calls still to be made on the request
    lastCall,       \* the call made last: its name, whether it returned an
                    \* error, and IsDone when it was made
    \* the deadline of a request
    timeoutMs,      \* reqMsg.TimeoutMs
    deadline,       \* the timeout of the request's context in ms, as a
                    \* set: empty before the context is made
    \* a runtime registry (AppRuntimeImpl, LinkRuntimeImpl)
    middlewares,    \* the middlewares slice: entries [Name, Fn, Priority]
    handlers,       \* the path fragments that have a handler
    caller,         \* a goroutine calling AddRawMiddleware / RemoveMiddleware:
                    \* where it is and the arguments of its call
    run,            \* a RunHandler call: its position, its local mws and
                    \* mwPos, and the functions it has invoked so far
    mwOrder,        \* history: the names in the list, in the order added
    mwCall,         \* history: the registry call that returned last
    mwPrev,         \* history: the registry call that returned before it
    \* a link runtime (LinkRuntimeImpl)
    linkHandlers,   \* its handlers map: path fragment to handler function
    linkRun,        \* a RunHandler call on it: the request, the locals hval,
                    \* mws and mwPos, what it has invoked, how it ended
    lastSet,        \* history: the SetRawHandler call that returned last
    \* a SetBlobData call
    BlobSizeLimitMB, \* pc.AccInfo.BlobSizeLimitMB
    blob,           \* the call: where it is, len(barr), whether it got to the
                    \* size check, the RPC it made, the error it returned
    \* a unary operation called by the user
    unary,          \* the call: the operation, where it is, the error it
                    \* returned
    fsop,           \* the DashFSClient operation looked at: its arguments, position, error and client calls
    lock,           \* the registry's mutex: 0 is unlocked, g is held by goroutine g
    gor,            \* the goroutines using one registry: position, depth of RunHandler calls, arguments
    reqCall,        \* the goroutines calling into one PanelRequest: the call and the position in it
    watch           \* the goroutine of WatchFile: its locals, its timer, and the clock

clientVars == <<ConnId, AppMap, DoneCh, PermErr, ExitErr, AccInfo, Conn>>
mainVars == <<pc, inStart, reconApps, w, connects>>
taskVars == <<extPc, reqs, nReqs, user>>
histVars == <<sinceEnd>>
reqVars == <<RequestType, PanelName, Path, AuthData, RRActions, IsDone, AuthImpl, wire, opsLeft, lastCall>>
tmVars == <<timeoutMs, deadline>>
rtVars == <<middlewares, handlers, caller, run>>
mwHist == <<mwOrder, mwCall, mwPrev>>
linkVars == <<linkHandlers, linkRun, lastSet>>
blobVars == <<BlobSizeLimitMB, blob>>
unaryVars == <<unary>>
fsVars == <<fsop>>
goVars == <<lock, gor>>
rqVars == <<reqCall>>
watchVars == <<watch>>
\* what the client does not touch
sideVars == <<reqVars, tmVars, rtVars, mwHist, linkVars, blobVars, unaryVars, fsVars, goVars, rqVars, watchVars>>
vars == <<clientVars, mainVars, taskVars, histVars, sideVars>>

Min(a, b) == IF a < b THEN a ELSE b

\* ------------------------------------------------------------- helpers
\* sinceEnd when runRequestStream has not returned since the loop's last call
NoEnd == "none"

\* a frame that has not arrived yet.  conn: the ConnId of the stream it came
\* on, until its goroutine ends; term: SendResponse calls with
\* ResponseDone=true issued for it; late: one of them carried the ConnId of a
\* later connection
NoReq == [pc |-> "none", conn |-> 0, term |-> 0, late |-> FALSE]

\* a process that has panicked runs no goroutine any more
Alive == pc # "panic"

\* DashCloudClient.IsConnected
IsConnected == ExitErr = "nil" /\ Conn \notin {"unset", "nil"} /\ ConnId # NoConnId

\* DashCloudClient.setExitError: the value of ExitErr after setExitError(err)
setExitError_overwrite(err) == err
setExitError_skip(err) == ExitErr
setExitError(err) == IF ExitErr = "nil" THEN err ELSE ExitErr

\* the outcomes an RPC on the channel can have: a channel that was closed
\* fails it; a failure reported by the server is retriable or not
RpcOutcomes == IF Conn = "Open" THEN {"ok", "retry", "perm"} ELSE {"retry"}

\* dashutil.ExpoWait
NewWait == [ForceWait |-> FALSE, step |-> 0]
WaitSleeps(ew) == ew.ForceWait \/ ew.step > 0
AfterWait(ew) == [ForceWait |-> FALSE, step |-> Min(ew.step + 1, MaxStep)]

NoCall == [op |-> "none", err |-> FALSE, wasDone |-> FALSE]

\* no PanelRequest is looked at in Spec
InitReqVars ==
    /\ RequestType = "handler"
    /\ PanelName = ""
    /\ Path = "/"
    /\ AuthData = <<>>
    /\ RRActions = <<>>
    /\ IsDone = FALSE
    /\ AuthImpl = FALSE
    /\ wire = <<>>
    /\ opsLeft = 0
    /\ lastCall = NoCall

\* no request deadline is looked at
InitTimeoutVars == timeoutMs = 0 /\ deadline = {}

\* makeCloudClient, before startClient
InitClient ==
    /\ ConnId = NoConnId
    /\ AppMap = {}
    /\ DoneCh = "open"
    /\ PermErr = FALSE
    /\ ExitErr = "nil"
    /\ AccInfo = 0
    /\ Conn = "unset"
    /\ pc = "connectGrpc"
    /\ inStart = TRUE
    /\ reconApps = {}
    /\ w = NewWait
    /\ connects = 0
    /\ extPc = "none"
    /\ reqs = [r \in 1..MaxReqs |-> NoReq]
    /\ nReqs = 0
    /\ user = [pc |-> "idle", app |-> "none"]
    /\ sinceEnd = NoEnd

NoMwCall == [op |-> "none", name |-> "", fn |-> "", priority |-> 0]
IdleCaller == [pc |-> "idle", name |-> "", fn |-> "", priority |-> 0]
IdleRun == [pc |-> "idle", mws |-> <<>>, mwPos |-> 0, invoked |-> <<>>, end |-> "none"]

\* MakeAppRuntime / MakeRuntime: no handler, no middleware
InitRtVars ==
    /\ middlewares = <<>>
    /\ handlers = {}
    /\ caller = IdleCaller
    /\ run = IdleRun

EmptyMap == [x \in {} |-> ""]
IdleLinkRun == [pc |-> "idle", reqType |-> "", pathFrag |-> "", hval |-> "", mws |-> <<>>,
                mwPos |-> 0, invoked |-> <<>>, end |-> "none"]
NoSet == [name |-> "", fn |-> "", old |-> "", err |-> FALSE]

\* MakeRuntime: no handler
InitLinkVars == linkHandlers = EmptyMap /\ linkRun = IdleLinkRun /\ lastSet = NoSet

IdleBlob == [pc |-> "idle", len |-> 0, gated |-> FALSE, rpc |-> "none", err |-> "nil"]

\* no SetBlobData call is looked at
InitBlobVars == BlobSizeLimitMB = 0 /\ blob = IdleBlob

IdleUnary == [op |-> "none", pc |-> "idle", err |-> "nil", exited |-> FALSE, app |-> "none"]

\* no unary operation is looked at
InitUnaryVars == unary = IdleUnary

\* no filesystem operation is looked at
IdleFs == [op |-> "none", path |-> <<>>, fault |-> "none", pc |-> "idle", err |-> "nil", calls |-> <<>>]

InitFsVars == fsop = IdleFs

\* the goroutines of a registry
Goroutines == {1, 2}

IdleGo == [pc |-> "idle", depth |-> 0, name |-> "", priority |-> 0, adding |-> FALSE]

\* the mutex is unlocked and no goroutine is in a call
InitGoVars == lock = 0 /\ gor = [g \in Goroutines |-> IdleGo]

\* no goroutine is in a call of the request
InitRqVars == reqCall = [g \in Goroutines |-> "idle"]

\* WatchFile has started its goroutine: lastRun := time.Now(), no timer; the
\* clock counts in units of which ThrottleTime is a multiple
InitWatchVars ==
    watch = [pc |-> "select", now |-> 0, lastRun |-> 0, needsRun |-> FALSE,
             timer |-> "nil", timerAt |-> 0, unserved |-> FALSE]

InitMwHist == mwOrder = <<>> /\ mwCall = NoMwCall /\ mwPrev = NoMwCall

Init == InitClient /\ InitReqVars /\ InitTimeoutVars /\ InitRtVars /\ InitMwHist /\ InitLinkVars /\ InitBlobVars /\ InitUnaryVars /\ InitFsVars /\ InitGoVars /\ InitRqVars /\ InitWatchVars

\* ------------------------------------------------------------ startClient
\* startClient lines 115-125: connectGrpc, then the ShutdownCh goroutine.
\* A keypair that does not load leaves pc.Conn and pc.DBService nil.
\* hostSet: Config.DashborgSrvHost # ""
ConnectGrpc ==
    /\ pc = "connectGrpc"
    /\ Conn' \in {"nil", "Open"}
    /\ extPc' = "waiting"
    /\ \E hostSet \in BOOLEAN : pc' = IF hostSet THEN "collect" ELSE "bootstrap"
    /\ UNCHANGED <<ConnId, AppMap, DoneCh, PermErr, ExitErr, AccInfo>>
    /\ UNCHANGED <<inStart, reconApps, w, connects>>
    /\ UNCHANGED <<reqs, nReqs, user, histVars, sideVars>>

\* startClient lines 125-135: getGrpcServer; its error is returned as is
Bootstrap ==
    /\ pc = "bootstrap"
    /\ pc' \in {"collect", "startFailed"}
    /\ UNCHANGED <<clientVars, inStart, reconApps, w, connects>>
    /\ UNCHANGED <<taskVars, histVars, sideVars>>

\* pc.Conn.GetState(): an open channel connects and loses its connection on
\* its own (grpc redials), so that any of these states can be read from it;
\* "Connecting" stands for connectivity.Connecting and TransientFailure, which
\* the loop treats alike (line 405), "Ready" for Ready and Idle
GetState == IF Conn = "Shutdown" THEN {"Shutdown"} ELSE {"Connecting", "Ready"}

\* ------------------------------------------- sendConnectClientMessage
\* lines 182-186: the app names are read from pc.AppMap without pc.Lock; a
\* ConnectApp that is writing its entry at that moment may or may not be seen
CollectApps ==
    /\ pc = "collect"
    /\ \E seen \in SUBSET (IF user.pc = "ca_store" THEN {user.app} ELSE {}) :
          reconApps' = AppMap \cup seen
    /\ pc' = "rpc"
    /\ UNCHANGED <<clientVars, inStart, w, connects>>
    /\ UNCHANGED <<taskVars, histVars, sideVars>>

\* where the caller of sendConnectClientMessage goes on a nil or retriable
\* result: startClient starts the loop (line 144), the loop continues (line
\* 422) or opens the request stream (line 425)
AfterConnect_fallThrough(res) == IF inStart THEN "top" ELSE "open"
AfterConnect(res) == IF inStart \/ res # "ok" THEN "top" ELSE "open"

\* lines 199-214: the ConnectClient call and its error path
ConnectRpc ==
    /\ pc = "rpc"
    /\ IF Conn = "nil"
       THEN /\ pc' = "panic"
            /\ UNCHANGED <<clientVars, inStart, reconApps, connects, histVars>>
       ELSE /\ \E res \in RpcOutcomes :
                  /\ res = "ok" => connects < MaxConnects
                  /\ IF res = "ok"
                     THEN /\ ConnId' = connects + 1
                          /\ connects' = connects + 1
                          /\ pc' = "storeAcc"
                          /\ UNCHANGED <<inStart, reconApps, sinceEnd>>
                     ELSE /\ ConnId' = NoConnId
                          /\ UNCHANGED connects
                          /\ pc' = IF res = "perm" THEN "latch" ELSE AfterConnect(res)
                          /\ inStart' = (inStart /\ res = "perm")
                          /\ reconApps' = {}
                          /\ sinceEnd' = NoEnd
            /\ UNCHANGED <<AppMap, DoneCh, PermErr, ExitErr, AccInfo, Conn>>
    /\ UNCHANGED w
    /\ UNCHANGED <<taskVars, sideVars>>

\* lines 216-218: AccInfo is stored under pc.Lock after ConnId was stored
StoreAccInfo ==
    /\ pc = "storeAcc"
    /\ AccInfo' = ConnId
    /\ pc' = AfterConnect("ok")
    /\ inStart' = FALSE
    /\ reconApps' = {}
    /\ sinceEnd' = NoEnd
    /\ UNCHANGED <<ConnId, AppMap, DoneCh, PermErr, ExitErr, Conn>>
    /\ UNCHANGED <<w, connects>>
    /\ UNCHANGED <<taskVars, sideVars>>

\* lines 208-212: a non-retriable error latches PermErr
LatchPermErr ==
    /\ pc = "latch"
    /\ PermErr' = TRUE
    /\ pc' = "setExit"
    /\ UNCHANGED <<ConnId, AppMap, DoneCh, ExitErr, AccInfo, Conn>>
    /\ UNCHANGED <<inStart, reconApps, w, connects>>
    /\ UNCHANGED <<taskVars, histVars, sideVars>>

\* the caller's handling of a non-retriable error: startClient lines 140-143
\* return it; the loop, lines 416-420, breaks and its deferred close runs
PermanentExit ==
    /\ pc = "setExit"
    /\ ExitErr' = setExitError("Permanent")
    /\ IF inStart
       THEN pc' = "startFailed" /\ UNCHANGED DoneCh
       ELSE pc' = "exited" /\ DoneCh' = "closed"
    /\ UNCHANGED <<ConnId, AppMap, PermErr, AccInfo, Conn>>
    /\ UNCHANGED <<inStart, reconApps, w, connects>>
    /\ UNCHANGED <<taskVars, histVars, sideVars>>


\* ------------------------------------------------- runRequestStreamLoop
\* lines 399-409: the channel state decides; on Shutdown the loop sets the
\* exit error, breaks, and the deferred close(pc.DoneCh) runs
LoopTop ==
    /\ pc = "top"
    /\ \E state \in GetState :
          IF state = "Shutdown"
          THEN /\ ExitErr' = setExitError("ConnShutdown")
               /\ DoneCh' = "closed"
               /\ pc' = "exited"
               /\ UNCHANGED w
          ELSE IF state = "Connecting"
          THEN /\ w' = NewWait
               /\ pc' = "top"
               /\ UNCHANGED <<ExitErr, DoneCh>>
          ELSE /\ pc' = "wait"
               /\ UNCHANGED <<ExitErr, DoneCh, w>>
    /\ UNCHANGED <<ConnId, AppMap, PermErr, AccInfo, Conn>>
    /\ UNCHANGED <<inStart, reconApps, connects>>
    /\ UNCHANGED <<taskVars, histVars, sideVars>>

\* lines 410-414: w.Wait(), a backoff step elapsing when one is due; then the
\* loop reconnects first when there is no ConnId
LoopWait ==
    /\ pc = "wait"
    /\ w' = AfterWait(w)
    /\ \E okWait \in (IF WaitSleeps(w) THEN BOOLEAN ELSE {TRUE}) :
          pc' = IF ~okWait THEN "top"
                ELSE IF ConnId = NoConnId THEN "collect" ELSE "open"
    /\ UNCHANGED <<clientVars, inStart, reconApps, connects>>
    /\ UNCHANGED <<taskVars, histVars, sideVars>>

\* lines 426-433: what the loop does with the (ranOk, errCode) returned by
\* runRequestStream: the ConnId it stores ...
AfterStreamConnId_keep(errCode) == ConnId
AfterStreamConnId(errCode) == IF errCode = "BadConnId" THEN NoConnId ELSE ConnId

\* ... and the ExpoWait it leaves: reset after 5 s of stream, forced unless
\* the stream ended with BadConnId
AfterStreamWait_noReset(ranOk, errCode) ==
    IF errCode = "BadConnId" THEN w ELSE [w EXCEPT !.ForceWait = TRUE]

AfterStreamWait_forceAlways(ranOk, errCode) ==
    LET w1 == IF ranOk THEN NewWait ELSE w
    IN [w1 EXCEPT !.ForceWait = TRUE]

AfterStreamWait(ranOk, errCode) ==
    LET w1 == IF ranOk THEN NewWait ELSE w
    IN IF errCode = "BadConnId" THEN w1 ELSE [w1 EXCEPT !.ForceWait = TRUE]

\* runRequestStream lines 454-460: the RequestStream call; when it fails
\* runRequestStream returns (false, Rpc)
OpenStream ==
    /\ pc = "open"
    /\ \/ /\ Conn = "Open"
          /\ pc' = "recv"
          /\ sinceEnd' = NoEnd
          /\ UNCHANGED <<ConnId, w>>
       \/ /\ pc' = "top"
          /\ ConnId' = AfterStreamConnId("Rpc")
          /\ w' = AfterStreamWait(FALSE, "Rpc")
          /\ sinceEnd' = "Rpc"
    /\ UNCHANGED <<AppMap, DoneCh, PermErr, ExitErr, AccInfo, Conn>>
    /\ UNCHANGED <<inStart, reconApps, connects>>
    /\ UNCHANGED <<taskVars, sideVars>>

\* runRequestStream lines 465-503 for a request frame: a goroutine is
\* started for it
RecvRequest ==
    /\ pc = "recv"
    /\ Conn = "Open"
    /\ nReqs < MaxReqs
    /\ reqs' = [reqs EXCEPT ![nReqs + 1] = [@ EXCEPT !.pc = "spawned", !.conn = ConnId]]
    /\ nReqs' = nReqs + 1
    /\ UNCHANGED <<clientVars, mainVars, extPc, user, histVars, sideVars>>

\* runRequestStream lines 466-483 and 505-506: EOF, a Recv error or a frame
\* with a non-OK status ends the stream, ranOk telling whether 5 s have
\* passed; then lines 426-433 of the loop
StreamEnd ==
    /\ pc = "recv"
    /\ \E errCode \in {"Eof", "Rpc"} \cup StatusCodes, ranOk \in BOOLEAN :
          /\ ConnId' = AfterStreamConnId(errCode)
          /\ w' = AfterStreamWait(ranOk, errCode)
          /\ sinceEnd' = errCode
    /\ pc' = "top"
    /\ UNCHANGED <<AppMap, DoneCh, PermErr, ExitErr, AccInfo, Conn>>
    /\ UNCHANGED <<inStart, reconApps, connects>>
    /\ UNCHANGED <<taskVars, sideVars>>

\* ------------------------------------------------ the ShutdownCh goroutine
\* the caller closes Config.ShutdownCh
FireShutdown ==
    /\ Alive
    /\ extPc = "waiting"
    /\ extPc' = "fired"
    /\ UNCHANGED <<clientVars, mainVars, reqs, nReqs, user, histVars, sideVars>>

\* externalShutdown lines 157-161
ExternalShutdown ==
    /\ Alive
    /\ extPc = "fired"
    /\ IF Conn = "nil"
       THEN extPc' = "done" /\ UNCHANGED ExitErr
       ELSE extPc' = "closing" /\ ExitErr' = setExitError("ShutdownCh")
    /\ UNCHANGED <<ConnId, AppMap, DoneCh, PermErr, AccInfo, Conn>>
    /\ UNCHANGED <<mainVars, reqs, nReqs, user, histVars, sideVars>>

\* externalShutdown lines 162-165: pc.Conn.Close()
CloseConn ==
    /\ Alive
    /\ extPc = "closing"
    /\ Conn' = "Shutdown"
    /\ extPc' = "done"
    /\ UNCHANGED <<ConnId, AppMap, DoneCh, PermErr, ExitErr, AccInfo>>
    /\ UNCHANGED <<mainVars, reqs, nReqs, user, histVars, sideVars>>


\* --------------------------------------------------- dispatch goroutines
\* a terminal SendResponse is issued for request r
Responded(rq) == [rq EXCEPT !.term = Min(@ + 1, 2), !.late = @ \/ ConnId \notin {rq.conn, NoConnId}]

\* the goroutine of request r ends
Ended(rq, at) == [rq EXCEPT !.pc = at, !.conn = 0]

\* AppClient.DispatchRequest: the app's handler runs, and when it has
\* returned the buffered actions go out in one response with
\* responseDone=true, through SendResponseProtoRpc
DispatchRequest(rq) == [rq EXCEPT !.pc = "handler"]

\* runRequestStream lines 494-502: the app named by the frame (appName) is
\* looked up under pc.Lock, and appClient.AppClient.DispatchRequest(ctx,
\* reqMsg) is invoked when there is one; nothing asks for the ConnId before
LookupApp_noLookup(r) ==
    /\ Alive
    /\ reqs[r].pc = "spawned"
    /\ reqs' = [reqs EXCEPT ![r] = DispatchRequest(@)]
    /\ UNCHANGED <<clientVars, mainVars, extPc, nReqs, user, histVars, sideVars>>

LookupApp(r) ==
    /\ Alive
    /\ reqs[r].pc = "spawned"
    /\ \E appName \in AppNames :
          reqs' = [reqs EXCEPT ![r] = IF appName \in AppMap THEN DispatchRequest(@)
                                       ELSE [@ EXCEPT !.pc = "noapp"]]
    /\ UNCHANGED <<clientVars, mainVars, extPc, nReqs, user, histVars, sideVars>>

\* sendNoAppResponse lines 437-451: SendResponse is called without asking
\* IsConnected
sendNoAppResponse_retry(r) ==
    /\ Alive
    /\ reqs[r].pc = "noapp"
    /\ reqs' = [reqs EXCEPT ![r] = IF reqs[r].term = 0 THEN Responded(@)
                                    ELSE Ended(Responded(@), "finished")]
    /\ UNCHANGED <<clientVars, mainVars, extPc, nReqs, user, sinceEnd, sideVars>>

sendNoAppResponse(r) ==
    /\ Alive
    /\ reqs[r].pc = "noapp"
    /\ reqs' = [reqs EXCEPT ![r] = Ended(Responded(@), "finished")]
    /\ UNCHANGED <<clientVars, mainVars, extPc, nReqs, user, sinceEnd, sideVars>>

\* SendResponseProtoRpc lines 814-816, called when the handler has returned:
\* IsConnected is asked, and NotConnectedErr returned ("dropped") when it
\* does not hold
RespondCheck(r) ==
    /\ Alive
    /\ reqs[r].pc = "handler"
    /\ reqs' = [reqs EXCEPT ![r] = IF IsConnected THEN [@ EXCEPT !.pc = "send"]
                                    ELSE Ended(@, "dropped")]
    /\ UNCHANGED <<clientVars, mainVars, extPc, nReqs, user, histVars, sideVars>>

\* handleStatusErrors lines 249-268: the ConnId it leaves when the call has
\* ended with res; it logs and returns the error, and stores nothing
handleStatusErrors_clearConnId(res) == IF res = "ok" THEN ConnId ELSE NoConnId
handleStatusErrors_ConnId(res) == ConnId

\* SendResponseProtoRpc lines 817-822: the SendResponse call and
\* handleStatusErrors on its result
SendResponseProtoRpc(r) ==
    /\ Alive
    /\ reqs[r].pc = "send"
    /\ reqs' = [reqs EXCEPT ![r] = Ended(Responded(@), "finished")]
    /\ \E res \in RpcOutcomes : ConnId' = handleStatusErrors_ConnId(res)
    /\ UNCHANGED <<AppMap, DoneCh, PermErr, ExitErr, AccInfo, Conn>>
    /\ UNCHANGED <<mainVars, extPc, nReqs, user, sinceEnd, sideVars>>

\* ------------------------------------------------------ the user goroutine
\* dasherr.CanRetry on the result of baseWriteApp
CanRetry(res) == res \in {"retry", "notconnected"}

\* ConnectApp lines 327-329 (ConnectAppRuntime lines 370-372)
ConnectApp ==
    /\ Alive
    /\ user.pc = "idle"
    /\ \E app \in UserApps :
          user' = IF IsConnected THEN [user EXCEPT !.app = app, !.pc = "ca_write"] ELSE user
    /\ UNCHANGED <<clientVars, mainVars, extPc, reqs, nReqs, histVars, sideVars>>

\* baseWriteApp lines 629-631
WriteAppCheck ==
    /\ Alive
    /\ user.pc = "ca_write"
    /\ user' = IF IsConnected THEN [user EXCEPT !.pc = "ca_rpc"]
               ELSE IF CanRetry("notconnected") THEN [user EXCEPT !.pc = "ca_store"]
               ELSE [user EXCEPT !.pc = "idle", !.app = "none"]
    /\ UNCHANGED <<clientVars, mainVars, extPc, reqs, nReqs, histVars, sideVars>>

\* baseWriteApp lines 646-650 and ConnectApp lines 333-336
WriteAppRpc ==
    /\ Alive
    /\ user.pc = "ca_rpc"
    /\ \E res \in RpcOutcomes :
          user' = IF res = "ok" \/ CanRetry(res) THEN [user EXCEPT !.pc = "ca_store"]
                  ELSE [user EXCEPT !.pc = "idle", !.app = "none"]
    /\ UNCHANGED <<clientVars, mainVars, extPc, reqs, nReqs, sinceEnd, sideVars>>

\* ConnectApp lines 341-343: the app is entered into pc.AppMap under pc.Lock
StoreApp ==
    /\ Alive
    /\ user.pc = "ca_store"
    /\ AppMap' = AppMap \cup {user.app}
    /\ user' = [user EXCEPT !.pc = "idle", !.app = "none"]
    /\ UNCHANGED <<ConnId, DoneCh, PermErr, ExitErr, AccInfo, Conn>>
    /\ UNCHANGED <<mainVars, extPc, reqs, nReqs, histVars, sideVars>>

\* the guarded unary calls RemoveApp (lines 353-355), ReflectZone (533-535),
\* BackendPush (516-518): IsConnected is asked first
UnaryCheck ==
    /\ Alive
    /\ user.pc = "idle"
    /\ user' = IF IsConnected THEN [user EXCEPT !.pc = "op_rpc"] ELSE user
    /\ UNCHANGED <<clientVars, mainVars, extPc, reqs, nReqs, histVars, sideVars>>

\* ... and the call is made afterwards (lines 360, 537, 524)
UnaryRpc ==
    /\ Alive
    /\ user.pc = "op_rpc"
    /\ user' = [user EXCEPT !.pc = "idle", !.app = "none"]
    /\ UNCHANGED <<clientVars, mainVars, extPc, reqs, nReqs, sinceEnd, sideVars>>

\* ------------------------------------------------------------------ Spec
MainNext ==
    \/ ConnectGrpc \/ Bootstrap \/ CollectApps \/ ConnectRpc \/ StoreAccInfo
    \/ LatchPermErr \/ PermanentExit
    \/ LoopTop \/ LoopWait \/ OpenStream \/ RecvRequest \/ StreamEnd

ExtNext == ExternalShutdown \/ CloseConn

DispatchNext(r) ==
    \/ LookupApp(r) \/ sendNoAppResponse(r)
    \/ RespondCheck(r) \/ SendResponseProtoRpc(r)

UserNext ==
    \/ ConnectApp \/ WriteAppCheck \/ WriteAppRpc \/ StoreApp
    \/ UnaryCheck \/ UnaryRpc

Next ==
    \/ MainNext
    \/ FireShutdown
    \/ ExtNext
    \/ \E r \in 1..MaxReqs : DispatchNext(r)
    \/ UserNext

Spec == Init /\ [][Next]_vars


FairSpec == Spec /\ WF_vars(MainNext) /\ WF_vars(ExtNext)

\* ============================================================ PanelRequest
\* a PanelRequest as the dispatcher hands it to a handler
InitReq ==
    /\ ConnId = 1 /\ AppMap = {} /\ DoneCh = "open" /\ PermErr = FALSE
    /\ ExitErr = "nil" /\ AccInfo = 1 /\ Conn = "Open"
    /\ pc = "recv" /\ inStart = FALSE /\ reconApps = {} /\ w = NewWait /\ connects = 1
    /\ extPc = "waiting" /\ reqs = [r \in 1..MaxReqs |-> NoReq] /\ nReqs = 0
    /\ user = [pc |-> "idle", app |-> "none"]
    /\ sinceEnd = NoEnd
    /\ RequestType \in {"handler", "data"}
    /\ PanelName \in {"", "panel"}
    /\ Path \in {"/", "/sub"}
    /\ AuthData \in {<<>>, <<"atom">>}
    /\ RRActions = <<>>
    /\ IsDone = FALSE
    /\ AuthImpl = FALSE
    /\ wire = <<>>
    /\ opsLeft = MaxOps
    /\ lastCall = NoCall
    /\ InitTimeoutVars /\ InitRtVars /\ InitMwHist /\ InitLinkVars /\ InitBlobVars /\ InitUnaryVars /\ InitFsVars /\ InitGoVars /\ InitRqVars /\ InitWatchVars

otherVars == <<clientVars, mainVars, taskVars, histVars, tmVars, rtVars, mwHist, linkVars, blobVars, unaryVars, fsVars, goVars, rqVars, watchVars>>
reqFields == <<RequestType, PanelName, Path, AuthData>>

Call(op, err) == [op |-> op, err |-> err, wasDone |-> IsDone]

\* a call is made on the request
Called(op, err) ==
    /\ opsLeft > 0
    /\ opsLeft' = opsLeft - 1
    /\ lastCall' = Call(op, err)
    /\ UNCHANGED <<otherVars, reqFields>>

\* appendRR lines 84-88
appendRR(actions, actionType) == Append(actions, actionType)

\* isRootReq lines 139-141
isRootReq == RequestType = "handler" /\ PanelName # "" /\ Path = "/"

\* isAuthenticated lines 204-207
isAuthenticated == Len(AuthData) > 0

\* the client's sendRequestResponse(req, done): the buffered actions are taken
\* and sent in one frame; a frame with done set makes the request done
sendRequestResponse(actions, done) ==
    /\ wire' = Append(wire, [done |-> done, actions |-> actions])
    /\ RRActions' = <<>>
    /\ IsDone' = (IsDone \/ done)

\* SetData lines 90-106 (marshalOk: the data marshals to JSON)
SetData ==
    \E marshalOk \in BOOLEAN :
       IF IsDone \/ ~marshalOk
       THEN Called("SetData", TRUE) /\ UNCHANGED <<RRActions, IsDone, AuthImpl, wire>>
       ELSE /\ Called("SetData", FALSE)
            /\ RRActions' = appendRR(RRActions, "setdata")
            /\ UNCHANGED <<IsDone, AuthImpl, wire>>

\* SetHtml lines 108-117
SetHtml ==
    /\ Called("SetHtml", FALSE)
    /\ RRActions' = appendRR(RRActions, "html")
    /\ UNCHANGED <<IsDone, AuthImpl, wire>>

\* SetHtmlFromFile lines 119-137 (fileOk: the file opens and reads)
SetHtmlFromFile ==
    \E fileOk \in BOOLEAN :
       IF ~fileOk
       THEN Called("SetHtmlFromFile", TRUE) /\ UNCHANGED <<RRActions, IsDone, AuthImpl, wire>>
       ELSE /\ Called("SetHtmlFromFile", FALSE)
            /\ RRActions' = appendRR(RRActions, "html")
            /\ UNCHANGED <<IsDone, AuthImpl, wire>>

\* InvalidateData lines 268-279
InvalidateData ==
    IF IsDone
    THEN Called("InvalidateData", TRUE) /\ UNCHANGED <<RRActions, IsDone, AuthImpl, wire>>
    ELSE /\ Called("InvalidateData", FALSE)
         /\ RRActions' = appendRR(RRActions, "invalidate")
         /\ UNCHANGED <<IsDone, AuthImpl, wire>>

\* sendEvent lines 281-298
sendEvent ==
    \E marshalOk \in BOOLEAN :
       IF IsDone \/ ~marshalOk
       THEN Called("sendEvent", TRUE) /\ UNCHANGED <<RRActions, IsDone, AuthImpl, wire>>
       ELSE /\ Called("sendEvent", FALSE)
            /\ RRActions' = appendRR(RRActions, "event")
            /\ UNCHANGED <<IsDone, AuthImpl, wire>>

\* the actions after NoAuth(), lines 212-217 with appendPanelAuthRRAction
\* lines 166-180
NoAuthActions(actions) ==
    IF isAuthenticated THEN actions ELSE appendRR(actions, "panelauth:noauth")

NoAuth ==
    /\ Called("NoAuth", FALSE)
    /\ AuthImpl' = TRUE
    /\ RRActions' = NoAuthActions(RRActions)
    /\ UNCHANGED <<IsDone, wire>>

\* PasswordAuth lines 223-253 (pwOk: the challenge data carries the password)
PasswordAuth ==
    \E pwOk \in BOOLEAN :
       /\ AuthImpl' = TRUE
       /\ IF isAuthenticated
          THEN Called("PasswordAuth", FALSE) /\ UNCHANGED RRActions
          ELSE IF pwOk
          THEN Called("PasswordAuth", FALSE) /\ RRActions' = appendRR(RRActions, "panelauth:password")
          ELSE Called("PasswordAuth", TRUE) /\ RRActions' = appendRR(RRActions, "panelauthchallenge")
       /\ UNCHANGED <<IsDone, wire>>

\* DashborgAuth lines 255-266
DashborgAuth ==
    /\ AuthImpl' = TRUE
    /\ IF isAuthenticated
       THEN Called("DashborgAuth", FALSE) /\ UNCHANGED RRActions
       ELSE Called("DashborgAuth", TRUE) /\ RRActions' = appendRR(RRActions, "panelauthchallenge")
    /\ UNCHANGED <<IsDone, wire>>

\* flush lines 300-305
flush ==
    IF IsDone
    THEN Called("flush", TRUE) /\ UNCHANGED <<RRActions, IsDone, AuthImpl, wire>>
    ELSE /\ Called("flush", FALSE)
         /\ sendRequestResponse(RRActions, FALSE)
         /\ UNCHANGED AuthImpl

\* Done lines 307-319
Done_noIsDoneCheck ==
    /\ Called("Done", FALSE)
    /\ LET auto == ~AuthImpl /\ isRootReq
       IN /\ AuthImpl' = (AuthImpl \/ auto)
          /\ sendRequestResponse(IF auto THEN NoAuthActions(RRActions) ELSE RRActions, TRUE)

Done ==
    IF IsDone
    THEN Called("Done", FALSE) /\ UNCHANGED <<RRActions, IsDone, AuthImpl, wire>>
    ELSE /\ Called("Done", FALSE)
         /\ LET auto == ~AuthImpl /\ isRootReq
            IN /\ AuthImpl' = (AuthImpl \/ auto)
               /\ sendRequestResponse(IF auto THEN NoAuthActions(RRActions) ELSE RRActions, TRUE)

NextReq ==
    \/ SetData \/ SetHtml \/ SetHtmlFromFile \/ InvalidateData \/ sendEvent
    \/ NoAuth \/ PasswordAuth \/ DashborgAuth
    \/ flush \/ Done

SpecReq == InitReq /\ [][NextReq]_vars


\* ================================================================ claims
Reqs == 1..MaxReqs

\* what WaitForShutdown (lines 599-602) returns, "blocked" while it waits
WaitForShutdown == IF DoneCh = "closed" THEN ExitErr ELSE "blocked"

\* startClient has returned nil: the reconnect loop was started
Started == ~inStart /\ pc # "panic"

\* C1: while the stored ConnId is "" no outbound RPC other than ConnectClient
\* is issued (no RequestStream, SendResponse, WriteApp, RemoveApp,
\* BackendPush, ...), also when the loop clears ConnId after a goroutine has
\* passed its IsConnected check
C1_NoRpcWithoutConnId ==
    [][ConnId = NoConnId =>
          /\ ~(pc = "open" /\ pc' # "open")
          /\ \A r \in Reqs : reqs'[r].term = reqs[r].term
          /\ ~(user.pc \in {"ca_rpc", "op_rpc"} /\ user'.pc # user.pc)]_vars

\* C2: no handler is dispatched while ConnId is "": ConnId is non-empty
\* whenever a dispatch goroutine invokes DispatchRequest
C2_NoDispatchWithoutConnId ==
    [][\A r \in Reqs :
          (reqs[r].pc = "spawned" /\ reqs'[r].pc = "handler") => ConnId # NoConnId]_vars

\* C3 as stated: every accepted request gets exactly one terminal
\* SendResponse, never two, and after a connection loss none is issued once
\* the client has reconnected
C3_NoResponseAfterReconnect ==
    \A r \in Reqs :
       /\ reqs[r].term <= 1
       /\ reqs[r].pc = "finished" => reqs[r].term = 1
       /\ ~reqs[r].late

\* C3 as amended: every accepted request gets at most one terminal
\* SendResponse; a dispatch goroutine that has ended has issued exactly one,
\* unless SendResponseProtoRpc found the client not connected, and then none
C3_OneTerminalResponse ==
    \A r \in Reqs :
       /\ reqs[r].term <= 1
       /\ reqs[r].pc = "finished" => reqs[r].term = 1
       /\ reqs[r].pc \in {"none", "spawned", "noapp", "handler", "send", "dropped"}
             => reqs[r].term = 0

\* a request accepted on one connection was answered after the reconnect,
\* with the ConnId of the new connection
C3_Witness == \E r \in Reqs : reqs[r].pc = "finished" /\ reqs[r].term = 1 /\ reqs[r].late

\* C4: once a request is done it stays done, no call appends an action to
\* RRActions any more, and flush returns an error without sending
C4_NoAppendAfterDone ==
    [][IsDone => /\ IsDone'
                 /\ RRActions' = RRActions
                 /\ (lastCall'.op = "flush" => lastCall'.err /\ wire' = wire)]_vars

\* the frames with responseDone=true put on the wire
Terminals == {i \in 1..Len(wire) : wire[i].done}

\* C5: a second Done returns nil, appends no action and sends nothing, so
\* that exactly one frame with responseDone=true is on the wire of a request
\* that is done
C5_DoneIdempotent ==
    /\ [](Cardinality(Terminals) = IF IsDone THEN 1 ELSE 0)
    /\ [][(IsDone /\ opsLeft' < opsLeft /\ lastCall'.op = "Done")
             => (~lastCall'.err /\ wire' = wire /\ RRActions' = RRActions /\ IsDone')]_vars

\* Done was called on a request that was done already
C5_Witness ==
    lastCall.op = "Done" /\ lastCall.wasDone /\ ~lastCall.err /\ Cardinality(Terminals) = 1

\* C6: after a stream end with BadConnId the stored ConnId is "", the loop's
\* next outbound call is ConnectClient, made for a reconnect with the names
\* of all apps in the app table, and no RequestStream is opened before a
\* ConnectClient has succeeded
C6_ReconnectAfterBadConnId ==
    /\ [](/\ sinceEnd = "BadConnId"
                => /\ ~inStart /\ pc \notin {"open", "recv"}
                   /\ pc # "storeAcc" => ConnId = NoConnId
          /\ pc \in {"open", "recv"} => ConnId # NoConnId)
    /\ [][(pc = "collect" /\ pc' = "rpc") => AppMap \subseteq reconApps']_vars

\* the loop's first call after a BadConnId stream end was a ConnectClient
\* naming app "a", and it has succeeded
C6_Witness ==
    /\ sinceEnd = "BadConnId" /\ pc = "storeAcc"
    /\ ~inStart /\ reconApps = {"a"} /\ ConnId # NoConnId

\* C7: after a stream end with BadConnId no wait is forced and no backoff
\* step elapses before the reconnect attempt, however short the stream was
C7_NoBackoffAfterBadConnId ==
    /\ [](sinceEnd = "BadConnId" => ~w.ForceWait)
    /\ [][(sinceEnd = "BadConnId" /\ pc = "wait" /\ pc' # "wait") => ~WaitSleeps(w)]_vars

\* C8: whenever the request stream has ended (EOF, Recv error, non-OK status,
\* failure to open), the stored ConnId is "" when the loop starts its next
\* cycle
C8_ConnIdClearedOnStreamEnd ==
    (sinceEnd \in {"Eof", "Rpc"} \cup StatusCodes /\ pc \in {"top", "wait"})
       => ConnId = NoConnId

\* C9: when the ConnectClient of startClient fails with a non-retriable
\* error, PermErr is latched, ExitErr is that error and the done channel is
\* closed, so WaitForShutdown returns ExitErr
C9_PermanentStartCloses ==
    (pc = "startFailed" /\ PermErr)
       => (ExitErr = "Permanent" /\ DoneCh = "closed" /\ WaitForShutdown = ExitErr)

EndCodes == {"Eof", "Rpc"} \cup StatusCodes

\* C11: when the bootstrap lookup of startClient fails, ExitErr is the
\* bootstrap failure and the client is closed; no ConnectClient has been
\* attempted and no reconnect loop is started
C11_BootstrapFailureSetsExitErr ==
    (pc = "startFailed" /\ ~PermErr)
       => (ExitErr = "Bootstrap" /\ DoneCh = "closed" /\ inStart /\ connects = 0)

\* C12: a keypair that does not load latches PermErr, sets ExitErr and ends
\* startClient, so that ConnectClient is never attempted on the nil
\* connection
C12_KeypairFailurePermanent ==
    Conn = "nil" => (PermErr /\ ExitErr # "nil" /\ pc = "startFailed")

\* C13: a ConnectClient that fails with a retriable error leaves ConnId "",
\* sets neither PermErr nor ExitErr and keeps the loop running (starts it,
\* in startClient); with ConnId "" the loop goes to ConnectClient again and
\* never opens the request stream
C13_RetriableConnectFailure ==
    /\ [][(pc = "rpc" /\ pc' = "top")
             => /\ ConnId' = NoConnId /\ ~inStart'
                /\ PermErr' = PermErr /\ ExitErr' = ExitErr /\ DoneCh' = DoneCh]_vars
    /\ [][(pc = "wait" /\ ConnId = NoConnId /\ pc' \notin {"wait", "top"})
             => pc' = "collect"]_vars
    /\ [](pc \in {"open", "recv"} => ConnId # NoConnId)

\* the ConnectClient of startClient failed with a retriable error, and the
\* loop is about to retry it
C13_Witness ==
    /\ pc = "rpc" /\ ~inStart /\ connects = 0 /\ ConnId = NoConnId
    /\ ~PermErr /\ ExitErr = "nil" /\ DoneCh = "open"

\* C14: when runRequestStream returns after 5 s or more (ranOk) the backoff
\* is at its base afterwards; when it returns sooner with a code other than
\* BadConnId the backoff is left as it was and a wait is forced
C14_BackoffResetAfterHealthyStream ==
    /\ [](pc \in {"open", "recv"} =>
             \A errCode \in EndCodes, ranOk \in BOOLEAN :
                LET w2 == AfterStreamWait(ranOk, errCode)
                IN /\ ranOk => w2.step = NewWait.step
                   /\ (~ranOk /\ errCode # "BadConnId") => (w2.step = w.step /\ w2.ForceWait))
    /\ [][(pc \in {"open", "recv"} /\ pc' = "top")
             => \E ranOk \in BOOLEAN : w' = AfterStreamWait(ranOk, sinceEnd')]_vars

\* a stream that had run for 5 s ended with a code other than BadConnId: the
\* backoff is at its base, and a wait is forced
C14_Witness ==
    /\ pc = "top" /\ sinceEnd \in EndCodes \ {"BadConnId"}
    /\ w.step = NewWait.step /\ w.ForceWait

\* C15: a request naming an app that is not in the app table gets one
\* terminal "No App Found" response and DispatchRequest is not invoked for
\* it; the request stream and the loop are left as they are
C15_NoAppFound ==
    /\ [](\A r \in Reqs : reqs[r].pc = "noapp" => reqs[r].term = 0)
    /\ [][\A r \in Reqs :
             /\ (reqs[r].pc = "noapp" /\ reqs'[r] # reqs[r])
                   => /\ reqs'[r].pc = "finished" /\ reqs'[r].term = 1
                      /\ pc' = pc /\ ConnId' = ConnId /\ sinceEnd' = sinceEnd
             /\ (reqs[r].pc = "spawned" /\ reqs'[r].pc = "handler")
                   => AppNames \cap AppMap # {}
             /\ (reqs[r].pc = "spawned" /\ reqs'[r].pc = "noapp")
                   => (AppNames \ AppMap # {} /\ pc' = pc)]_vars

\* with no app in the table a request has got its one terminal response, and
\* the stream it came on is still open
C15_Witness ==
    \E r \in Reqs :
       /\ AppMap = {} /\ reqs[r].pc = "finished" /\ reqs[r].term = 1
       /\ pc = "recv" /\ ConnId # NoConnId



\* ============================================================ request deadline
\* The goroutine runRequestStream starts for a request, up to the context it
\* makes: the deadline is computed from the frame's TimeoutMs.

MaxTimeoutMs == 60100
\* a frame's TimeoutMs: unset (0), negative, small, around the cap, above it
TimeoutMsValues == (-2 .. 100) \cup (59900 .. MaxTimeoutMs)

timeoutMs_noZero(t) == IF t > 60000 THEN 60000 ELSE t

\* timeoutMs := reqMsg.TimeoutMs; if timeoutMs == 0 || timeoutMs > 60000 {...}
timeoutMs_capped(t) == IF t = 0 \/ t > 60000 THEN 60000 ELSE t

InitTimeout ==
    /\ InitClient /\ InitReqVars /\ InitRtVars /\ InitMwHist /\ InitLinkVars /\ InitBlobVars /\ InitUnaryVars /\ InitFsVars /\ InitGoVars /\ InitRqVars /\ InitWatchVars
    /\ timeoutMs \in TimeoutMsValues
    /\ deadline = {}

\* context.WithTimeout(context.Background(), timeoutMs * time.Millisecond)
WithTimeout ==
    /\ deadline = {}
    /\ deadline' = {timeoutMs_capped(timeoutMs)}
    /\ UNCHANGED <<clientVars, mainVars, taskVars, histVars, reqVars, rtVars, mwHist, linkVars, blobVars, unaryVars, fsVars, goVars, rqVars, watchVars, timeoutMs>>

NextTimeout == WithTimeout

SpecTimeout == InitTimeout /\ [][NextTimeout]_vars

\* C16: a request's deadline is 60000 ms when its TimeoutMs is 0 or above
\* 60000, and TimeoutMs itself otherwise
C16_RequestDeadline ==
    deadline # {} =>
        /\ timeoutMs = 0 => deadline = {60000}
        /\ timeoutMs > 60000 => deadline = {60000}
        /\ (timeoutMs # 0 /\ timeoutMs <= 60000) => deadline = {timeoutMs}

C16_Witness == timeoutMs = 0 /\ deadline = {60000}


\* ============================================================ runtime registry
\* The middleware list of a registry (runtime.go). AppRuntimeImpl and
\* LinkRuntimeImpl keep it the same way, through addMiddlewares and
\* removeMiddleware.

MwNames == {"A", "B", "C"}
MwFns == {"f1", "f2"}
MwPriorities == {5, 7, 10}

\* middlewareType{Name, Fn, Priority}
middlewareType(name, mwFunc, priority) == [Name |-> name, Fn |-> mwFunc, Priority |-> priority]

\* the less function handed to sort.Slice orders by Priority, higher first
IsSortedDesc(mws) ==
    \A i, j \in DOMAIN mws : i < j => ~(mws[j].Priority > mws[i].Priority)

Perms(mws) ==
    LET n == Len(mws)
        bij == {q \in [1..n -> 1..n] : \A i, j \in 1..n : q[i] = q[j] => i = j}
    IN {[i \in 1..n |-> mws[q[i]]] : q \in bij}

\* sort.Slice(newmws, less): the slice ends up ordered by less; sort.Slice is
\* not a stable sort, so entries that less does not order may end up in any
\* order
sort_Slice(mws) == {t \in Perms(mws) : IsSortedDesc(t)}

addMiddlewares_noSort(mws, mw) == {Append(mws, mw)}

\* addMiddlewares: a new slice holding mws and mw, sorted
addMiddlewares(mws, mw) == sort_Slice(Append(mws, mw))

\* removeMiddleware: a new slice holding the entries of mws not named name
removeMiddleware(mws, name) == SelectSeq(mws, LAMBDA mw : mw.Name # name)

\* the names of a list, in its order
MwNamesOf(mws) == [i \in DOMAIN mws |-> mws[i].Name]

\* ------------------------------------------------------------ sequential calls
\* One goroutine calls AddRawMiddleware and RemoveMiddleware one after the
\* other; no request is running.

AddRawMiddleware_noRemove(name, mwFunc, priority) ==
    /\ middlewares' \in addMiddlewares(middlewares, middlewareType(name, mwFunc, priority))
    /\ mwOrder' = Append(SelectSeq(mwOrder, LAMBDA n : n # name), name)
    /\ mwCall' = [op |-> "add", name |-> name, fn |-> mwFunc, priority |-> priority]
    /\ mwPrev' = mwCall

\* AddRawMiddleware: RemoveMiddleware(name), then under the lock the new entry
\* is added
AddRawMiddleware(name, mwFunc, priority) ==
    /\ middlewares' \in addMiddlewares(removeMiddleware(middlewares, name),
                                       middlewareType(name, mwFunc, priority))
    /\ mwOrder' = Append(SelectSeq(mwOrder, LAMBDA n : n # name), name)
    /\ mwCall' = [op |-> "add", name |-> name, fn |-> mwFunc, priority |-> priority]
    /\ mwPrev' = mwCall

RemoveMiddleware(name) ==
    /\ middlewares' = removeMiddleware(middlewares, name)
    /\ mwOrder' = SelectSeq(mwOrder, LAMBDA n : n # name)
    /\ mwCall' = [op |-> "remove", name |-> name, fn |-> "", priority |-> 0]
    /\ mwPrev' = mwCall

InitMw == InitClient /\ InitReqVars /\ InitTimeoutVars /\ InitRtVars /\ InitMwHist /\ InitLinkVars /\ InitBlobVars /\ InitUnaryVars /\ InitFsVars /\ InitGoVars /\ InitRqVars /\ InitWatchVars

mwOther == <<clientVars, mainVars, taskVars, histVars, reqVars, tmVars, handlers, caller, run, linkVars, blobVars, unaryVars, fsVars, goVars, rqVars, watchVars>>

NextMw ==
    \/ \E name \in MwNames, mwFunc \in MwFns, priority \in MwPriorities :
          AddRawMiddleware(name, mwFunc, priority) /\ UNCHANGED mwOther
    \/ \E name \in MwNames : RemoveMiddleware(name) /\ UNCHANGED mwOther

SpecMw == InitMw /\ [][NextMw]_vars

\* where name stands in the order of insertion
AddedAt(name) == CHOOSE i \in DOMAIN mwOrder : mwOrder[i] = name

\* C19: after any sequence of AddRawMiddleware and RemoveMiddleware calls the
\* list is sorted by descending priority and, among entries of equal priority,
\* one added earlier comes before one added later
C19_StableOnTies ==
    /\ IsSortedDesc(middlewares)
    /\ \A i, j \in DOMAIN middlewares :
          (i < j /\ middlewares[i].Priority = middlewares[j].Priority)
             => AddedAt(middlewares[i].Name) < AddedAt(middlewares[j].Name)

\* the entries of mws named name
Named(mws, name) == {i \in DOMAIN mws : mws[i].Name = name}
\* the entries of mws with another name
Others(mws, name) == {mws[i] : i \in DOMAIN mws \ Named(mws, name)}

\* C20: after two sequential AddRawMiddleware calls with one name the list
\* holds one entry of that name, with the function and priority of the second
\* call, placed by that priority; the entries of other names are those a
\* single call leaves
C20_LastWriteWins ==
    /\ []((mwCall.op = "add" /\ mwPrev.op = "add" /\ mwPrev.name = mwCall.name) =>
            /\ Cardinality(Named(middlewares, mwCall.name)) = 1
            /\ \A i \in Named(middlewares, mwCall.name) :
                  middlewares[i] = middlewareType(mwCall.name, mwCall.fn, mwCall.priority)
            /\ IsSortedDesc(middlewares))
    /\ [][mwCall'.op = "add" =>
            Others(middlewares', mwCall'.name) = Others(middlewares, mwCall'.name)]_vars

C20_Witness ==
    /\ mwPrev = [op |-> "add", name |-> "A", fn |-> "f1", priority |-> 5]
    /\ mwCall = [op |-> "add", name |-> "A", fn |-> "f2", priority |-> 10]
    /\ middlewares = <<middlewareType("A", "f2", 10), middlewareType("B", "f1", 7)>>


\* ------------------------------------------------------------ requests and calls
\* A RunHandler call runs while another goroutine (or the middleware or
\* handler the request is in) calls AddRawMiddleware and RemoveMiddleware.
\* Each action is one critical section of the registry's lock, or one
\* function invoked outside it.

RtFns == {"f1"}
PathFrags == {"", "h"}

\* setHandler: app.handlers[path] = handler
setHandler(path) ==
    /\ handlers' = handlers \cup {path}
    /\ UNCHANGED <<middlewares, caller, run>>

\* RunHandler up to the call of the helper: the PathFrag check, then under
\* the lock the handler lookup and mws := apprt.middlewares
RunHandler(pathFrag) ==
    /\ run.pc = "idle"
    /\ IF pathFrag = ""
         THEN run' = [run EXCEPT !.pc = "returned", !.end = "validate"]
         ELSE IF pathFrag \notin handlers
                THEN run' = [run EXCEPT !.pc = "returned", !.end = "noHandler"]
                ELSE run' = [run EXCEPT !.pc = "chain", !.mws = middlewares, !.mwPos = 0]
    /\ UNCHANGED <<middlewares, handlers, caller>>

mwHelper_mws_shared == middlewares

\* the slice mwAppHelper / mwLinkHelper / mwHelper index: their parameter mws
mwHelper_mws == run.mws

\* one level of the helper: past the end it invokes the handler, else it
\* invokes mws[mwPos], which calls its next function with a request, calls it
\* with nil, or returns without calling it
mwHelper ==
    /\ run.pc = "chain"
    /\ LET mws == mwHelper_mws
       IN IF run.mwPos >= Len(mws)
            THEN run' = [run EXCEPT !.pc = "returned", !.end = "handler",
                                    !.invoked = Append(@, "handler")]
            ELSE \E innerReq \in {"req", "nil", "none"} :
                    run' = [run EXCEPT
                              !.invoked = Append(@, mws[run.mwPos + 1].Name),
                              !.mwPos = IF innerReq = "req" THEN @ + 1 ELSE @,
                              !.pc = CASE innerReq = "req" -> "chain"
                                       [] innerReq = "nil" -> "panicked"
                                       [] OTHER -> "returned",
                              !.end = CASE innerReq = "req" -> "none"
                                        [] innerReq = "nil" -> "panic"
                                        [] OTHER -> "mwReturn"]
    /\ UNCHANGED <<middlewares, handlers, caller>>

\* the call is over; the next request can come
RunHandler_return ==
    /\ run.pc \in {"returned", "panicked"}
    /\ run' = IdleRun
    /\ UNCHANGED <<middlewares, handlers, caller>>

\* AddRawMiddleware, its first critical section: RemoveMiddleware(name)
AddRawMiddleware_remove(name, mwFunc, priority) ==
    /\ caller.pc = "idle"
    /\ middlewares' = removeMiddleware(middlewares, name)
    /\ caller' = [pc |-> "add", name |-> name, fn |-> mwFunc, priority |-> priority]
    /\ UNCHANGED <<handlers, run>>

\* AddRawMiddleware, its second critical section: the new entry is added
AddRawMiddleware_add ==
    /\ caller.pc = "add"
    /\ middlewares' \in addMiddlewares(middlewares,
                                       middlewareType(caller.name, caller.fn, caller.priority))
    /\ caller' = IdleCaller
    /\ UNCHANGED <<handlers, run>>

RemoveMiddleware_call(name) ==
    /\ caller.pc = "idle"
    /\ middlewares' = removeMiddleware(middlewares, name)
    /\ UNCHANGED <<handlers, caller, run>>

InitRt == InitClient /\ InitReqVars /\ InitTimeoutVars /\ InitRtVars /\ InitMwHist /\ InitLinkVars /\ InitBlobVars /\ InitUnaryVars /\ InitFsVars /\ InitGoVars /\ InitRqVars /\ InitWatchVars

rtOther == <<clientVars, mainVars, taskVars, histVars, reqVars, tmVars, mwHist, linkVars, blobVars, unaryVars, fsVars, goVars, rqVars, watchVars>>

NextRt ==
    \/ \E path \in PathFrags \ {""} : setHandler(path) /\ UNCHANGED rtOther
    \/ \E pathFrag \in PathFrags : RunHandler(pathFrag) /\ UNCHANGED rtOther
    \/ mwHelper /\ UNCHANGED rtOther
    \/ RunHandler_return /\ UNCHANGED rtOther
    \/ \E name \in MwNames, mwFunc \in RtFns, priority \in MwPriorities :
          AddRawMiddleware_remove(name, mwFunc, priority) /\ UNCHANGED rtOther
    \/ AddRawMiddleware_add /\ UNCHANGED rtOther
    \/ \E name \in MwNames : RemoveMiddleware_call(name) /\ UNCHANGED rtOther

SpecRt == InitRt /\ [][NextRt]_vars

\* the call got as far as the helper
InChain == run.pc = "chain" \/ run.end \in {"handler", "mwReturn", "panic"}

\* the first n entries of a sequence
Prefix(sq, n) == SubSeq(sq, 1, n)

\* C17: the functions RunHandler invokes are the list as it stood when the
\* snapshot was taken, in descending priority order, then the handler,
\* provided each middleware calls its next function
C17_ChainIsSnapshotInPriorityOrder ==
    /\ [](InChain =>
            /\ IsSortedDesc(run.mws)
            /\ Len(run.invoked) <= Len(run.mws) + 1
            /\ Prefix(run.invoked, Min(Len(run.invoked), Len(run.mws)))
                  = Prefix(MwNamesOf(run.mws), Min(Len(run.invoked), Len(run.mws)))
            /\ run.end = "handler" => run.invoked = MwNamesOf(run.mws) \o <<"handler">>
            /\ run.end \in {"mwReturn", "panic"} => "handler" \notin {run.invoked[i] : i \in DOMAIN run.invoked})
    /\ [][(run.pc = "idle" /\ run'.pc = "chain") => run'.mws = middlewares]_vars

C17_Witness ==
    /\ run.end = "handler"
    /\ run.mws = <<middlewareType("A", "f1", 10), middlewareType("C", "f1", 7),
                   middlewareType("B", "f1", 5)>>
    /\ run.invoked = <<"A", "C", "B", "handler">>

\* C18: the chain of one RunHandler call does not change while the call
\* runs: calls of AddRawMiddleware and RemoveMiddleware made meanwhile
\* neither add, remove nor reorder the entries the request goes through
C18_ChainUnchangedDuringRequest ==
    /\ [][(run.pc = "chain" /\ run'.pc # "idle") => run'.mws = run.mws]_vars
    /\ [][(run.pc = "chain" /\ run' # run) =>
            run'.invoked = Append(run.invoked,
                                  IF run.mwPos >= Len(run.mws) THEN "handler"
                                  ELSE run.mws[run.mwPos + 1].Name)]_vars
    /\ [][(run.pc = "chain" /\ middlewares' # middlewares) => run' = run]_vars

\* a request is past its first middleware, the list has changed since its
\* snapshot and an AddRawMiddleware is between its two critical sections
C18_Witness ==
    /\ run.pc = "chain" /\ run.mwPos = 1 /\ Len(run.mws) = 2
    /\ caller.pc = "add"
    /\ Len(middlewares) = 1 /\ middlewares[1] = run.mws[2]


\* C21: when a middleware hands nil to its next function the dispatch is
\* aborted, neither the handler nor a later middleware is invoked, and
\* RunHandler returns the fault as its error result
C21_NilRequestIsErrorResult ==
    [](run.end = "panic" =>
         /\ Len(run.invoked) = run.mwPos + 1
         /\ "handler" \notin {run.invoked[i] : i \in DOMAIN run.invoked}
         /\ run.pc = "returned")


\* ============================================================ link runtime
\* A LinkRuntimeImpl: SetRawHandler, AddRawMiddleware and RunHandler.

LinkHandlerNames == {"h", "bad name"}
LinkHandlerFns == {"h1", "h2"}
LinkPathFrags == {"", "h", "g"}
LinkRequestTypes == {"path", "handler"}
LinkMwNames == {"A"}
LinkMwPriorities == {5, 10}

\* dashutil.IsPathFragValid: the names the path-fragment validator accepts
IsPathFragValid(handlerName) == handlerName \in {"h", "g"}

linkSetHandler_keepOld(name, fn) ==
    IF name \in DOMAIN linkHandlers THEN linkHandlers
    ELSE [n \in DOMAIN linkHandlers \cup {name} |-> IF n = name THEN fn ELSE linkHandlers[n]]

\* setHandler: linkrt.handlers[name] = fn
linkSetHandler(name, fn) ==
    [n \in DOMAIN linkHandlers \cup {name} |-> IF n = name THEN fn ELSE linkHandlers[n]]

\* SetRawHandler: an invalid name is an error, a valid one is set
SetRawHandler(handlerName, handlerFn) ==
    /\ IF ~IsPathFragValid(handlerName)
         THEN /\ lastSet' = [name |-> handlerName, fn |-> handlerFn, old |-> "", err |-> TRUE]
              /\ UNCHANGED linkHandlers
         ELSE /\ linkHandlers' = linkSetHandler(handlerName, handlerFn)
              /\ lastSet' = [name |-> handlerName, fn |-> handlerFn, err |-> FALSE,
                             old |-> IF handlerName \in DOMAIN linkHandlers
                                       THEN linkHandlers[handlerName] ELSE ""]
    /\ UNCHANGED <<middlewares, caller, linkRun>>

linkTypeOk_any(RequestType_) == TRUE

\* info.RequestType != requestTypePath is refused
linkTypeOk(RequestType_) == RequestType_ = "path"

\* LinkRuntimeImpl.RunHandler up to the call of the helper: the checks of
\* RequestType and PathFrag, then under the lock the handler lookup and
\* mws := linkrt.middlewares
LinkRunHandler(RequestType_, pathFrag) ==
    /\ linkRun.pc = "idle"
    /\ LET req == [linkRun EXCEPT !.reqType = RequestType_, !.pathFrag = pathFrag]
       IN IF ~linkTypeOk(RequestType_)
            THEN linkRun' = [req EXCEPT !.pc = "returned", !.end = "Validate"]
            ELSE IF pathFrag = ""
                   THEN linkRun' = [req EXCEPT !.pc = "returned", !.end = "Validate"]
                   ELSE IF pathFrag \notin DOMAIN linkHandlers
                          THEN linkRun' = [req EXCEPT !.pc = "returned", !.end = "NoHandler"]
                          ELSE linkRun' = [req EXCEPT !.pc = "chain",
                                                      !.hval = linkHandlers[pathFrag],
                                                      !.mws = middlewares, !.mwPos = 0]
    /\ UNCHANGED <<middlewares, caller, linkHandlers, lastSet>>

\* one level of mwLinkHelper: past the end it invokes hval.HandlerFn, else
\* mws[mwPos], which calls its next function with a request, with nil, or
\* not at all
mwLinkHelper ==
    /\ linkRun.pc = "chain"
    /\ IF linkRun.mwPos >= Len(linkRun.mws)
         THEN linkRun' = [linkRun EXCEPT !.pc = "returned", !.end = "handler",
                                         !.invoked = Append(@, linkRun.hval)]
         ELSE \E innerReq \in {"req", "nil", "none"} :
                 linkRun' = [linkRun EXCEPT
                               !.invoked = Append(@, linkRun.mws[linkRun.mwPos + 1].Name),
                               !.mwPos = IF innerReq = "req" THEN @ + 1 ELSE @,
                               !.pc = CASE innerReq = "req" -> "chain"
                                        [] innerReq = "nil" -> "panicked"
                                        [] OTHER -> "returned",
                               !.end = CASE innerReq = "req" -> "none"
                                         [] innerReq = "nil" -> "panic"
                                         [] OTHER -> "mwReturn"]
    /\ UNCHANGED <<middlewares, caller, linkHandlers, lastSet>>

LinkRunHandler_return ==
    /\ linkRun.pc \in {"returned", "panicked"}
    /\ linkRun' = IdleLinkRun
    /\ UNCHANGED <<middlewares, caller, linkHandlers, lastSet>>

InitLink == InitClient /\ InitReqVars /\ InitTimeoutVars /\ InitRtVars /\ InitMwHist /\ InitLinkVars /\ InitBlobVars /\ InitUnaryVars /\ InitFsVars /\ InitGoVars /\ InitRqVars /\ InitWatchVars

linkOther == <<clientVars, mainVars, taskVars, histVars, reqVars, tmVars, mwHist, handlers, run, blobVars, unaryVars, fsVars, goVars, rqVars, watchVars>>

NextLink ==
    \/ \E handlerName \in LinkHandlerNames, handlerFn \in LinkHandlerFns :
          SetRawHandler(handlerName, handlerFn) /\ UNCHANGED linkOther
    \/ \E RequestType_ \in LinkRequestTypes, pathFrag \in LinkPathFrags :
          LinkRunHandler(RequestType_, pathFrag) /\ UNCHANGED linkOther
    \/ mwLinkHelper /\ UNCHANGED linkOther
    \/ LinkRunHandler_return /\ UNCHANGED linkOther
    \/ \E name \in LinkMwNames, mwFunc \in RtFns, priority \in LinkMwPriorities :
          AddRawMiddleware_remove(name, mwFunc, priority) /\ UNCHANGED <<linkOther, linkVars>>
    \/ AddRawMiddleware_add /\ UNCHANGED <<linkOther, linkVars>>
    \/ \E name \in LinkMwNames : RemoveMiddleware_call(name) /\ UNCHANGED <<linkOther, linkVars>>

SpecLink == InitLink /\ [][NextLink]_vars

\* C22: a link runtime refuses a request whose type is not 'path' with a
\* Validate error before it looks for a handler: no middleware and no handler
\* is invoked for it, whatever is registered
C22_LinkRejectsNonPath ==
    /\ []((linkRun.pc # "idle" /\ linkRun.reqType # "path") =>
             /\ linkRun.pc = "returned" /\ linkRun.end = "Validate"
             /\ linkRun.invoked = <<>>)
    /\ [][(linkRun.pc # "idle" /\ linkRun.reqType # "path" /\ linkRun' # linkRun)
             => linkRun' = IdleLinkRun]_vars

C22_Witness ==
    /\ linkRun.pc = "returned" /\ linkRun.end = "Validate"
    /\ linkRun.reqType = "handler" /\ linkRun.pathFrag = "h"
    /\ "h" \in DOMAIN linkHandlers /\ middlewares # <<>>


\* the handler functions a call has invoked
HandlersInvoked(r) == {i \in DOMAIN r.invoked : r.invoked[i] \in LinkHandlerFns}

\* C23: SetRawHandler with a name the validator refuses returns an error and
\* leaves the handler map as it was; with a valid name it puts the handler
\* under the name, in place of the one that was there, and a request that
\* comes later for that path fragment runs the new handler only
C23_SetRawHandler ==
    /\ [](DOMAIN linkHandlers \subseteq {n \in LinkHandlerNames \cup LinkPathFrags : IsPathFragValid(n)})
    /\ [](lastSet # NoSet =>
            /\ lastSet.err <=> ~IsPathFragValid(lastSet.name)
            /\ ~lastSet.err => (lastSet.name \in DOMAIN linkHandlers
                                /\ linkHandlers[lastSet.name] = lastSet.fn))
    /\ [][lastSet'.err => linkHandlers' = linkHandlers]_vars
    /\ [][(linkHandlers' # linkHandlers) =>
            /\ DOMAIN linkHandlers' = DOMAIN linkHandlers \cup {lastSet'.name}
            /\ \A n \in DOMAIN linkHandlers \ {lastSet'.name} : linkHandlers'[n] = linkHandlers[n]]_vars
    /\ [][(linkRun.pc = "idle" /\ linkRun'.pc = "chain" /\ linkRun'.pathFrag = lastSet.name)
            => linkRun'.hval = lastSet.fn]_vars
    /\ [](linkRun.end = "handler" =>
            /\ Cardinality(HandlersInvoked(linkRun)) = 1
            /\ linkRun.invoked[Len(linkRun.invoked)] = linkRun.hval)

\* a handler was replaced and a request that came later ran the new one
C23_Witness ==
    /\ lastSet = [name |-> "h", fn |-> "h2", old |-> "h1", err |-> FALSE]
    /\ linkRun.end = "handler" /\ linkRun.pathFrag = "h"
    /\ linkRun.invoked = <<"A", "h2">>


\* ============================================================ claims, continued

\* C24: at Done a root-handler request whose handler called no auth method
\* gets one panelauth action of type noauth appended before the terminal
\* send; any other request gets none
C24_SyntheticNoAuth ==
    [][(~IsDone /\ IsDone') =>
          LET sent == wire'[Len(wire')]
          IN /\ sent.done
             /\ sent.actions = IF isRootReq /\ ~AuthImpl
                                 THEN Append(RRActions, "panelauth:noauth")
                                 ELSE RRActions]_vars


\* ============================================================ SetBlobData
\* One SetBlobData call on a client whose connection does not change while
\* the call runs.

MaxBlobLimitMB == 2
mbConst == 1000000

\* the lengths of barr: around every whole number of MB
BlobLens == {k * mbConst + d : k \in 0..(MaxBlobLimitMB + 1), d \in {-1, 0, 1}} \cap Nat

overLimit_ge(len, limitMB) == len >= limitMB * mbConst

\* float64(len(barr)) > pc.AccInfo.BlobSizeLimitMB*mbConst
overLimit(len, limitMB) == len > limitMB * mbConst

InitBlob ==
    /\ InitClient
    /\ InitReqVars /\ InitTimeoutVars /\ InitRtVars /\ InitMwHist /\ InitLinkVars /\ InitUnaryVars /\ InitFsVars /\ InitGoVars /\ InitRqVars /\ InitWatchVars
    /\ BlobSizeLimitMB \in 0..MaxBlobLimitMB
    /\ blob \in {[IdleBlob EXCEPT !.len = n] : n \in BlobLens}

blobOther == <<mainVars, taskVars, histVars, reqVars, tmVars, rtVars, mwHist, linkVars, unaryVars, fsVars, goVars, rqVars, watchVars>>

\* the client connects, or its connection is lost, between calls
BlobConnect ==
    /\ blob.pc = "idle"
    /\ \E id \in {NoConnId, 1} :
          /\ ConnId' = id
          /\ AccInfo' = IF id = NoConnId THEN AccInfo ELSE id
          /\ Conn' = "Open"
    /\ UNCHANGED <<AppMap, DoneCh, PermErr, ExitErr, BlobSizeLimitMB, blob, blobOther>>

\* lines 668-678: IsConnected, MarshalJson(blob), ReadAll(r)
SetBlobData_read ==
    /\ blob.pc = "idle"
    /\ \E marshalOk, readOk \in BOOLEAN :
          blob' = IF ~IsConnected
                    THEN [blob EXCEPT !.pc = "returned", !.err = "NotConnected"]
                  ELSE IF ~marshalOk
                    THEN [blob EXCEPT !.pc = "returned", !.err = "JsonMarshal"]
                  ELSE IF ~readOk
                    THEN [blob EXCEPT !.pc = "returned", !.err = "Read"]
                  ELSE [blob EXCEPT !.pc = "limit"]
    /\ UNCHANGED <<clientVars, BlobSizeLimitMB, blobOther>>

\* lines 679-683: the size check
SetBlobData_limit ==
    /\ blob.pc = "limit"
    /\ blob' = IF overLimit(blob.len, BlobSizeLimitMB)
                 THEN [blob EXCEPT !.pc = "returned", !.gated = TRUE, !.err = "Limit"]
                 ELSE [blob EXCEPT !.pc = "open", !.gated = TRUE]
    /\ UNCHANGED <<clientVars, BlobSizeLimitMB, blobOther>>

\* lines 691-694: pc.DBService.SetBlob opens the stream
SetBlobData_open ==
    /\ blob.pc = "open"
    /\ \E ok \in BOOLEAN :
          blob' = IF ok THEN [blob EXCEPT !.pc = "send", !.rpc = "opened"]
                  ELSE [blob EXCEPT !.pc = "returned", !.rpc = "failed", !.err = "Rpc"]
    /\ UNCHANGED <<clientVars, BlobSizeLimitMB, blobOther>>

\* lines 695-698: bclient.Send(m)
SetBlobData_send ==
    /\ blob.pc = "send"
    /\ \E ok \in BOOLEAN :
          blob' = IF ok THEN [blob EXCEPT !.pc = "recv", !.rpc = "sent"]
                  ELSE [blob EXCEPT !.pc = "returned", !.err = "Rpc"]
    /\ UNCHANGED <<clientVars, BlobSizeLimitMB, blobOther>>

\* lines 699-705: CloseAndRecv and handleStatusErrors
SetBlobData_recv ==
    /\ blob.pc = "recv"
    /\ \E res \in {"nil", "Rpc"} \cup StatusCodes :
          blob' = [blob EXCEPT !.pc = "returned", !.rpc = "closed", !.err = res]
    /\ UNCHANGED <<clientVars, BlobSizeLimitMB, blobOther>>

NextBlob ==
    \/ BlobConnect
    \/ SetBlobData_read
    \/ SetBlobData_limit
    \/ SetBlobData_open
    \/ SetBlobData_send
    \/ SetBlobData_recv

SpecBlob == InitBlob /\ [][NextBlob]_vars

\* C25: the SetBlob RPC is attempted iff the length is at most
\* BlobSizeLimitMB x 1,000,000; a longer blob gets a Limit error and no RPC
C25_BlobSizeGate ==
    /\ blob.rpc # "none" => blob.len <= BlobSizeLimitMB * 1000000
    /\ (blob.gated /\ blob.len > BlobSizeLimitMB * 1000000)
          => (blob.pc = "returned" /\ blob.err = "Limit" /\ blob.rpc = "none")
    /\ (blob.gated /\ blob.pc = "returned" /\ blob.len <= BlobSizeLimitMB * 1000000)
          => blob.rpc # "none"

C25_Witness ==
    /\ blob.len = 2000000 /\ BlobSizeLimitMB = 1
    /\ blob.pc = "returned" /\ blob.err = "Limit" /\ blob.rpc = "none"

\* ============================================================ claims, transport

\* the goroutine of request r is running
Dispatching(r) == reqs[r].pc \in {"spawned", "noapp", "handler", "send"}

\* C26: what happens to one request does not reach the transport: the
\* receive loop ends only on EOF, a Recv error or a frame with a non-OK
\* status, and no step of a dispatch (no app found, the handler's return, a
\* SendResponse that fails) ends the stream, changes ConnId or sets ExitErr
\* or PermErr
C26_DispatchLeavesTransport ==
    /\ [][\A r \in Reqs :
            (Dispatching(r) /\ reqs'[r] # reqs[r]) =>
               /\ pc' = pc /\ sinceEnd' = sinceEnd
               /\ ConnId' = ConnId /\ ExitErr' = ExitErr /\ PermErr' = PermErr
               /\ Conn' = Conn /\ DoneCh' = DoneCh]_vars
    /\ [][(pc = "recv" /\ pc' # "recv") => (pc' = "top" /\ sinceEnd' \in EndCodes)]_vars

\* a dispatch that found its app has run to its end and the stream it came
\* from is still open on the same connection
C26_Witness ==
    \E r \in Reqs :
       /\ reqs[r].pc = "finished" /\ reqs[r].term = 1 /\ ~reqs[r].late
       /\ AppMap # {} /\ pc = "recv" /\ sinceEnd = NoEnd
       /\ ConnId # NoConnId /\ ExitErr = "nil" /\ ~PermErr

\* ============================================================ unary operations
\* The operations a user calls on a client that connects, loses its
\* connection and registers apps meanwhile: an IsConnected check, for some
\* a JSON encoding, the RPC with handleStatusErrors on its result, for some
\* a decoding of the response.

UnaryOps == {"ReflectZone", "CallDataHandler", "OpenApp", "BackendPush", "RemoveApp",
             "WriteApp", "StartStreamProtoRpc", "SendResponseProtoRpc"}

\* the operations that marshal their argument before the RPC
Marshals(op) == op \in {"CallDataHandler", "WriteApp"}

\* the operations that look into the response after the RPC: JSON decoding,
\* and in StartStreamProtoRpc the comparison of the request ids
Decodes(op) == op \in {"ReflectZone", "CallDataHandler", "OpenApp", "StartStreamProtoRpc"}

unaryOther == <<mainVars, taskVars, histVars, reqVars, tmVars, rtVars, mwHist, linkVars, blobVars, fsVars, goVars, rqVars, watchVars>>

\* the error codes a status of the server can carry
ServerErrs == {"Rpc", "NoHandler"} \cup StatusCodes

\* handleStatusErrors lines 249-268: the PermErr it leaves
handleStatusErrors_latch(res) == PermErr \/ res # "nil"
handleStatusErrors_PermErr(res) == PermErr

\* what the operation does when its work is over: WriteApp goes on to
\* showAppLink (line 652), the others return
Unary_done(err) ==
    IF unary.op = "WriteApp" THEN [unary EXCEPT !.pc = "link", !.err = err]
    ELSE [unary EXCEPT !.pc = "returned", !.err = err]

\* the IsConnected check the operations begin with
Unary_check ==
    /\ unary.pc = "idle"
    /\ \E op \in UnaryOps :
          unary' = IF ~IsConnected
                     THEN [Unary_done("NotConnected") EXCEPT !.op = op,
                              !.pc = IF op = "WriteApp" THEN "link" ELSE "returned",
                              !.exited = ExitErr # "nil"]
                   ELSE [unary EXCEPT !.op = op, !.pc = IF Marshals(op) THEN "marshal" ELSE "rpc"]
    /\ UNCHANGED <<clientVars, unaryOther>>

\* dashutil.MarshalJson of the argument (lines 556-559, 629-634)
Unary_marshal ==
    /\ unary.pc = "marshal"
    /\ \E ok \in BOOLEAN :
          unary' = IF ok THEN [unary EXCEPT !.pc = "rpc"] ELSE Unary_done("JsonMarshal")
    /\ UNCHANGED <<clientVars, unaryOther>>

\* the RPC and handleStatusErrors on its result
Unary_rpc ==
    /\ unary.pc = "rpc"
    /\ \E res \in {"nil"} \cup ServerErrs :
          /\ unary' = IF res # "nil" THEN Unary_done(res)
                      ELSE IF Decodes(unary.op) THEN [unary EXCEPT !.pc = "decode"]
                      ELSE Unary_done("nil")
          /\ ConnId' = handleStatusErrors_ConnId(IF res = "nil" THEN "ok" ELSE res)
          /\ PermErr' = handleStatusErrors_PermErr(res)
    /\ UNCHANGED <<AppMap, DoneCh, ExitErr, AccInfo, Conn, unaryOther>>

\* json.Unmarshal of the response (lines 543-546, 573-576, 617-620); the
\* request ids compared (lines 806-808)
Unary_decode ==
    /\ unary.pc = "decode"
    /\ \E ok \in BOOLEAN :
          unary' = IF ok THEN Unary_done("nil")
                   ELSE Unary_done(IF unary.op = "StartStreamProtoRpc" THEN "ReqId"
                                   ELSE "JsonUnmarshal")
    /\ UNCHANGED <<clientVars, unaryOther>>

\* WriteApp line 652, showAppLink lines 306-323: with an AccInfo the link is
\* made, and getAccHost (lines 770-772) panics when the client is not
\* connected; only a failure of MakeAccountJWT (lines 753-756) returns
\* before getAccHost is reached
WriteApp_showAppLink ==
    /\ unary.pc = "link"
    /\ \E jwtErr \in BOOLEAN :
          unary' = IF AccInfo # 0 /\ ~IsConnected /\ ~jwtErr
                     THEN [unary EXCEPT !.pc = "panicked", !.err = "panic"]
                   ELSE [unary EXCEPT !.pc = "returned"]
    /\ UNCHANGED <<clientVars, unaryOther>>

\* ConnectApp and ConnectAppRuntime as calls of the program, with what they
\* return
ConnectOps == {"ConnectApp", "ConnectAppRuntime"}

\* lines 327-329, 370-372: the IsConnected check
Unary_ConnectApp ==
    /\ unary.pc = "idle"
    /\ \E op \in ConnectOps, app \in UserApps :
          unary' = IF ~IsConnected
                     THEN [unary EXCEPT !.op = op, !.app = app, !.pc = "returned",
                                        !.err = "NotConnected", !.exited = ExitErr # "nil"]
                   ELSE [unary EXCEPT !.op = op, !.app = app, !.pc = "ca_write"]
    /\ UNCHANGED <<clientVars, unaryOther>>

\* where ConnectApp goes with the result of baseWriteApp (lines 333-336,
\* 375-378): a non-retriable error is returned, anything else registers
ConnectApp_after(res) ==
    IF res = "ok" THEN [unary EXCEPT !.pc = "ca_store", !.err = "nil"]
    ELSE IF CanRetry(res) THEN [unary EXCEPT !.pc = "ca_store", !.err = res]
    ELSE [unary EXCEPT !.pc = "returned", !.err = res]

\* baseWriteApp lines 629-640: its own IsConnected check, and the AppConfig
\* of ConnectApp marshalled
Unary_baseWriteApp ==
    /\ unary.pc = "ca_write"
    /\ \E marshalOk \in (IF unary.op = "ConnectApp" THEN BOOLEAN ELSE {TRUE}) :
          unary' = IF ~IsConnected THEN ConnectApp_after("notconnected")
                   ELSE IF ~marshalOk THEN ConnectApp_after("JsonMarshal")
                   ELSE [unary EXCEPT !.pc = "ca_rpc"]
    /\ UNCHANGED <<clientVars, unaryOther>>

\* baseWriteApp lines 647-651: the WriteApp RPC and handleStatusErrors
Unary_baseWriteApp_rpc ==
    /\ unary.pc = "ca_rpc"
    /\ \E res \in {"ok", "retry", "perm"} : unary' = ConnectApp_after(res)
    /\ UNCHANGED <<clientVars, unaryOther>>

\* lines 341-343, 383-385: the entry of the app table, under pc.Lock
Unary_storeApp ==
    /\ unary.pc = "ca_store"
    /\ AppMap' = AppMap \cup {unary.app}
    /\ unary' = [unary EXCEPT !.pc = "ca_link"]
    /\ UNCHANGED <<ConnId, DoneCh, PermErr, ExitErr, AccInfo, Conn, unaryOther>>

\* lines 344-349, 386-391: showAppLink, then the error of baseWriteApp or nil
ConnectApp_showAppLink ==
    /\ unary.pc = "ca_link"
    /\ \E jwtErr \in BOOLEAN :
          unary' = IF AccInfo # 0 /\ ~IsConnected /\ ~jwtErr
                     THEN [unary EXCEPT !.pc = "panicked", !.err = "panic"]
                   ELSE [unary EXCEPT !.pc = "returned"]
    /\ UNCHANGED <<clientVars, unaryOther>>

\* externalShutdown line 161 while operations are called: setExitError
Unary_setExitError ==
    /\ ExitErr' = setExitError("ShutdownCh")
    /\ UNCHANGED <<ConnId, AppMap, DoneCh, PermErr, AccInfo, Conn, unary, unaryOther>>

Unary_return ==
    /\ unary.pc = "returned"
    /\ unary' = IdleUnary
    /\ UNCHANGED <<clientVars, unaryOther>>

InitUnary ==
    /\ InitClient
    /\ InitReqVars /\ InitTimeoutVars /\ InitRtVars /\ InitMwHist /\ InitLinkVars /\ InitFsVars /\ InitGoVars /\ InitRqVars /\ InitWatchVars
    /\ InitBlobVars /\ InitUnaryVars

NextUnary ==
    \/ BlobConnect
    \/ ConnectApp \/ WriteAppCheck \/ WriteAppRpc \/ StoreApp
    \/ Unary_check \/ Unary_marshal \/ Unary_rpc \/ Unary_decode
    \/ WriteApp_showAppLink \/ Unary_return
    \/ Unary_setExitError
    \/ Unary_ConnectApp \/ Unary_baseWriteApp \/ Unary_baseWriteApp_rpc
    \/ Unary_storeApp \/ ConnectApp_showAppLink

SpecUnary == InitUnary /\ [][NextUnary]_vars

FsPaths == {<<>>, <<"a">>, <<"/">>, <<"/", "a">>, <<"a", "/">>}

FsRootPath == <<"/", "@", "r">>

FsOps == {"SetRawPath", "SetJsonPath", "SetStaticPath", "SetPathFromFile",
          "LinkRuntime", "LinkAppRuntime", "FileInfo", "DirInfo", "RemovePath"}

\* what can go wrong with the other arguments of a call
FsFaults == {"none", "encode", "open", "optsNil", "seek", "rtErr"}

\* path == "" || path[0] != '/' is the rejection
pathOk_nonEmpty(path) == path # <<>>

pathOk(path) == path # <<>> /\ path[1] = "/"

\* the error an operation returns before it looks at its path
preErr(op, fault) ==
    CASE op = "SetJsonPath" /\ fault = "encode" -> "JsonMarshal"
      [] op = "SetStaticPath" /\ fault = "seek" -> "Seek"
      [] op = "SetPathFromFile" /\ fault = "open" -> "Open"
      [] op = "SetPathFromFile" /\ fault = "optsNil" -> "Validate"
      [] op = "SetPathFromFile" /\ fault = "seek" -> "Seek"
      [] op \in {"LinkRuntime", "LinkAppRuntime"} /\ fault = "rtErr" -> "RtErr"
      [] OTHER -> "nil"

\* the error of a rejected path
pathErr(op) ==
    IF op \in {"SetRawPath", "SetJsonPath", "SetStaticPath", "SetPathFromFile"}
    THEN "Validate" ELSE "Path"

\* the function of the client an operation ends in
clientFn(op) ==
    CASE op \in {"FileInfo", "DirInfo"} -> "fileInfo"
      [] op = "RemovePath" -> "removePath"
      [] OTHER -> "setRawPath"

fsOther == <<clientVars, mainVars, taskVars, histVars, reqVars, tmVars, rtVars, mwHist, linkVars, blobVars, unaryVars, goVars, rqVars, watchVars>>

Fs_call(op, path, fault) ==
    /\ fsop.pc = "idle"
    /\ fsop' = [op |-> op, path |-> path, fault |-> fault, pc |-> "pre", err |-> "nil", calls |-> <<>>]
    /\ UNCHANGED fsOther

\* encoding, opening, hashing, the error of the runtime
Fs_pre ==
    /\ fsop.pc = "pre"
    /\ fsop' = IF preErr(fsop.op, fsop.fault) # "nil"
                 THEN [fsop EXCEPT !.pc = "returned", !.err = preErr(fsop.op, fsop.fault)]
                 ELSE [fsop EXCEPT !.pc = "validate"]
    /\ UNCHANGED fsOther

Fs_validate ==
    /\ fsop.pc = "validate"
    /\ fsop' = IF pathOk(fsop.path)
                 THEN [fsop EXCEPT !.pc = "client"]
                 ELSE [fsop EXCEPT !.pc = "returned", !.err = pathErr(fsop.op)]
    /\ UNCHANGED fsOther

Fs_client(res) ==
    /\ fsop.pc = "client"
    /\ fsop' = [fsop EXCEPT !.pc = "returned", !.err = res,
                             !.calls = Append(@, [fn |-> clientFn(fsop.op), path |-> FsRootPath \o fsop.path])]
    /\ UNCHANGED fsOther

Fs_return ==
    /\ fsop.pc = "returned"
    /\ fsop' = IdleFs
    /\ UNCHANGED fsOther

InitFs == Init

NextFs ==
    \/ \E op \in FsOps, path \in FsPaths, fault \in FsFaults : Fs_call(op, path, fault)
    \/ Fs_pre
    \/ Fs_validate
    \/ \E res \in {"nil", "Client"} : Fs_client(res)
    \/ Fs_return

SpecFs == InitFs /\ [][NextFs]_vars

\* C28: an operation of the virtual filesystem whose path is empty or does not
\* begin with '/' never calls into the client, and returns an error
C28_PathValidatedBeforeUse ==
    (fsop.op \in FsOps /\ (fsop.path = <<>> \/ Head(fsop.path) # "/")) =>
        /\ fsop.calls = <<>>
        /\ fsop.pc # "client"
        /\ fsop.pc = "returned" => fsop.err # "nil"

C28_Witness ==
    /\ fsop.op = "LinkAppRuntime" /\ fsop.path = <<"a", "/">> /\ fsop.fault = "none"
    /\ fsop.pc = "returned" /\ fsop.err = "Path" /\ fsop.calls = <<>>

\* ---------------------------------------------------------------------
\* claims, the fields stored by sendConnectClientMessage
\* ---------------------------------------------------------------------

\* C29: a client that is connected holds the AccInfo of that connection: the
\* new ConnId is never visible with AccInfo still nil or still the record of
\* the connection before
C29_ConnIdAndAccInfoTogether == IsConnected => AccInfo = ConnId

\* C30: the app names collected for ConnectClient are the app table as it is:
\* the read does not interleave with a write of ConnectApp
C30_AppMapReadUnderLock ==
    [][(pc = "collect" /\ pc' # "collect") => reconApps' = AppMap]_vars

\* ---------------------------------------------------------------------
\* registries, several goroutines: the mutex of AppRuntimeImpl / LinkRuntimeImpl
\* ---------------------------------------------------------------------

\* how deep RunHandler calls nest (a handler that calls RunHandler)
MaxDepth == 2

GoMwNames == {"A", "B"}
GoMwPriorities == {5, 10}

goOther == <<clientVars, mainVars, taskVars, histVars, reqVars, tmVars, mwHist, linkVars, blobVars, unaryVars, fsVars, caller, run, rqVars, watchVars>>

\* where a call of the registry returns to: the handler or middleware that
\* made it, or the program outside any request
Back(g) == IF gor[g].depth > 0 THEN "user" ELSE "idle"

\* the code that calls the registry: the program, a handler, a middleware
InCallerCode(g) == gor[g].pc \in {"idle", "user"}

\* lock.Lock(): blocks until the mutex is unlocked
Lock(g, from, to) ==
    /\ gor[g].pc = from
    /\ lock = 0
    /\ lock' = g
    /\ gor' = [gor EXCEPT ![g].pc = to]
    /\ UNCHANGED <<middlewares, handlers>>
    /\ UNCHANGED goOther

\* SetRawHandler with a valid name, up to setHandler's Lock()
Go_SetRawHandler(g) ==
    /\ InCallerCode(g)
    /\ gor' = [gor EXCEPT ![g].pc = "sh_lock"]
    /\ UNCHANGED <<lock, middlewares, handlers>>
    /\ UNCHANGED goOther

\* setHandler: the store, then the deferred Unlock()
Go_setHandler(g, path) ==
    /\ gor[g].pc = "sh_body"
    /\ handlers' = handlers \cup {path}
    /\ lock' = 0
    /\ gor' = [gor EXCEPT ![g].pc = Back(g)]
    /\ UNCHANGED middlewares
    /\ UNCHANGED goOther

\* RemoveMiddleware(name), called by the program or as the first statement
\* of AddRawMiddleware, up to its Lock()
Go_RemoveMiddleware(g, name, priority, adding) ==
    /\ InCallerCode(g)
    /\ gor' = [gor EXCEPT ![g].pc = "rm_lock", ![g].name = name,
                          ![g].priority = priority, ![g].adding = adding]
    /\ UNCHANGED <<lock, middlewares, handlers>>
    /\ UNCHANGED goOther

\* RemoveMiddleware: the list without the name, then the deferred Unlock()
Go_removeMiddleware(g) ==
    /\ gor[g].pc = "rm_body"
    /\ middlewares' = removeMiddleware(middlewares, gor[g].name)
    /\ lock' = 0
    /\ gor' = IF gor[g].adding
                THEN [gor EXCEPT ![g].pc = "add_lock"]
                ELSE [gor EXCEPT ![g].pc = Back(g), ![g].name = "", ![g].priority = 0]
    /\ UNCHANGED handlers
    /\ UNCHANGED goOther

\* AddRawMiddleware after its Lock(): the new entry, then the deferred Unlock()
Go_addMiddlewares(g) ==
    /\ gor[g].pc = "add_body"
    /\ middlewares' \in addMiddlewares(middlewares, middlewareType(gor[g].name, "f1", gor[g].priority))
    /\ lock' = 0
    /\ gor' = [gor EXCEPT ![g].pc = Back(g), ![g].name = "", ![g].priority = 0, ![g].adding = FALSE]
    /\ UNCHANGED handlers
    /\ UNCHANGED goOther

\* RunHandler with a PathFrag, up to its Lock()
Go_RunHandler(g) ==
    /\ InCallerCode(g)
    /\ gor[g].depth < MaxDepth
    /\ gor' = [gor EXCEPT ![g].pc = "rh_lock"]
    /\ UNCHANGED <<lock, middlewares, handlers>>
    /\ UNCHANGED goOther

\* the mutex after RunHandler took hval and mws
RunHandler_keepLock(g) == g

RunHandler_Unlock(g) == 0

\* RunHandler: the lookup and the snapshot, Unlock(), then either the error
\* of a missing handler or the chain of middlewares and handler
Go_RunHandler_snapshot(g, pathFrag) ==
    /\ gor[g].pc = "rh_snap"
    /\ lock' = RunHandler_Unlock(g)
    /\ gor' = IF pathFrag \in handlers
                THEN [gor EXCEPT ![g].pc = "user", ![g].depth = @ + 1]
                ELSE [gor EXCEPT ![g].pc = Back(g)]
    /\ UNCHANGED <<middlewares, handlers>>
    /\ UNCHANGED goOther

\* the chain is over: RunHandler returns to its caller
Go_RunHandler_return(g) ==
    /\ gor[g].pc = "user"
    /\ gor' = [gor EXCEPT ![g].depth = @ - 1,
                          ![g].pc = IF gor[g].depth > 1 THEN "user" ELSE "idle"]
    /\ UNCHANGED <<lock, middlewares, handlers>>
    /\ UNCHANGED goOther

InitGo == InitClient /\ InitReqVars /\ InitTimeoutVars /\ InitRtVars /\ InitMwHist /\ InitLinkVars /\ InitBlobVars /\ InitUnaryVars /\ InitFsVars /\ InitGoVars /\ InitRqVars /\ InitWatchVars

NextGo ==
    \E g \in Goroutines :
       \/ Go_SetRawHandler(g)
       \/ Lock(g, "sh_lock", "sh_body")
       \/ Go_setHandler(g, "h")
       \/ \E name \in GoMwNames : Go_RemoveMiddleware(g, name, 0, FALSE)
       \/ \E name \in GoMwNames, priority \in GoMwPriorities : Go_RemoveMiddleware(g, name, priority, TRUE)
       \/ Lock(g, "rm_lock", "rm_body")
       \/ Go_removeMiddleware(g)
       \/ Lock(g, "add_lock", "add_body")
       \/ Go_addMiddlewares(g)
       \/ Go_RunHandler(g)
       \/ Lock(g, "rh_lock", "rh_snap")
       \/ \E pathFrag \in {"h", "g"} : Go_RunHandler_snapshot(g, pathFrag)
       \/ Go_RunHandler_return(g)

SpecGo == InitGo /\ [][NextGo]_vars

\* the positions at which a goroutine waits in Lock()
LockPcs == {"sh_lock", "rm_lock", "add_lock", "rh_lock"}

\* C31: no goroutine holds the registry's mutex while a handler or middleware
\* of its request runs, and no goroutine waits for a mutex it holds itself
C31_LockNotHeldInUserCode ==
    \A g \in Goroutines :
       /\ gor[g].pc = "user" => lock # g
       /\ gor[g].pc \in LockPcs => lock # g
       /\ (gor[g].depth > 0 /\ lock = g) => gor[g].pc \in {"sh_body", "rm_body", "add_body", "rh_snap"}

\* two requests run their chains at once, and one of them is inside a call
\* of AddRawMiddleware made by its handler, holding the mutex
C31_Witness ==
    /\ gor[1].pc = "add_body" /\ gor[1].depth = 1 /\ lock = 1
    /\ gor[2].pc = "user" /\ gor[2].depth = 2

\* C37: the middleware list of a registry holds at most one entry per name,
\* whatever the goroutines calling AddRawMiddleware and RemoveMiddleware do
C37_MiddlewareNamesUnique ==
    \A i, j \in DOMAIN middlewares :
       middlewares[i].Name = middlewares[j].Name => i = j

\* ---------------------------------------------------------------------
\* claims, the end of the request stream and the exit of the loop
\* ---------------------------------------------------------------------

C33_LoopExit ==
    /\ [](DoneCh = "closed" => (pc = "exited" /\ ExitErr # "nil"))
    /\ [][DoneCh' # DoneCh => (DoneCh = "open" /\ pc # "exited" /\ pc' = "exited")]_vars
    /\ [][(pc # "exited" /\ pc' = "exited") =>
            /\ DoneCh' = "closed" /\ ExitErr' # "nil"
            /\ \/ pc = "top" /\ Conn = "Shutdown"
               \/ pc = "setExit" /\ ~inStart /\ PermErr]_vars
    /\ [][pc = "top" =>
            /\ pc' \in {"top", "wait", "exited"}
            /\ connects' = connects /\ ConnId' = ConnId /\ sinceEnd' = sinceEnd
            /\ w' # w => (pc' = "top" /\ w' = NewWait)]_vars

\* the loop has exited on a permanent error of a reconnect
C33_Witness ==
    /\ pc = "exited" /\ DoneCh = "closed" /\ ExitErr = "Permanent"
    /\ PermErr /\ connects > 0 /\ Conn = "Open"

\* C34: ExitErr, once set, keeps the error of the first setExitError, and
\* PermErr, once true, stays true
C34_ExitErrWriteOnce ==
    /\ [][ExitErr # "nil" => ExitErr' = ExitErr]_vars
    /\ [][PermErr => PermErr']_vars

\* the shutdown requested from outside came first; the loop then found the
\* channel Shutdown, called setExitError again and exited
C34_Witness ==
    /\ ExitErr = "ShutdownCh" /\ pc = "exited" /\ DoneCh = "closed" /\ Conn = "Shutdown"

\* C35: an operation called with ExitErr set returns NotConnected: it neither
\* issues its RPC nor ends any other way
C35_NotConnectedAfterExit ==
    /\ [][(ExitErr # "nil" /\ unary.pc = "idle" /\ unary'.pc # "idle") =>
            (unary'.err = "NotConnected" /\ unary'.pc \in {"returned", "link"})]_vars
    /\ [][(unary.exited /\ unary.pc = "link" /\ unary'.pc # "link") =>
            (unary'.err = "NotConnected" /\ unary'.pc = "returned")]_vars

\* C36: ConnectApp and ConnectAppRuntime leave the app table alone up to the
\* result of WriteApp, register the app exactly when that result is success
\* or a retriable error, and after registering return that result
C36_ConnectAppRegisters ==
    /\ [][(unary.op \in ConnectOps /\ unary' # unary /\ unary.pc # "ca_store") =>
            AppMap' = AppMap]_vars
    /\ [](unary.pc = "ca_store" => unary.err \in {"nil", "retry", "notconnected"})
    /\ [][(unary.pc = "ca_link" /\ unary'.pc # "ca_link") =>
            (unary'.pc = "returned" /\ unary'.err = unary.err /\ unary.app \in AppMap)]_vars

\* ---------------------------------------------------------------------
\* PanelRequest, several goroutines: Done and SetData in their steps
\* ---------------------------------------------------------------------

rqOther == <<clientVars, mainVars, taskVars, histVars, tmVars, rtVars, mwHist, linkVars, blobVars, unaryVars, fsVars, goVars, watchVars>>

\* a goroutine calls Done or SetData: the unlocked read of req.IsDone
Rq_call(g, op) ==
    /\ reqCall[g] = "idle"
    /\ opsLeft > 0
    /\ opsLeft' = opsLeft - 1
    /\ reqCall' = [reqCall EXCEPT ![g] = IF IsDone THEN "idle"
                               ELSE IF op = "Done" THEN "done_auth" ELSE "sd_append"]
    /\ UNCHANGED <<reqFields, RRActions, IsDone, AuthImpl, wire, lastCall, rqOther>>

\* Done lines 311-313: the default NoAuth() of a root request
Rq_Done_NoAuth(g) ==
    /\ reqCall[g] = "done_auth"
    /\ LET auto == ~AuthImpl /\ isRootReq
       IN /\ AuthImpl' = (AuthImpl \/ auto)
          /\ RRActions' = IF auto THEN NoAuthActions(RRActions) ELSE RRActions
    /\ reqCall' = [reqCall EXCEPT ![g] = "done_send"]
    /\ UNCHANGED <<reqFields, IsDone, wire, opsLeft, lastCall, rqOther>>

\* Done line 314: sendRequestResponse(req, true)
Rq_Done_send(g) ==
    /\ reqCall[g] = "done_send"
    /\ sendRequestResponse(RRActions, TRUE)
    /\ reqCall' = [reqCall EXCEPT ![g] = "idle"]
    /\ UNCHANGED <<reqFields, AuthImpl, opsLeft, lastCall, rqOther>>

\* SetData lines 94-105: appendRR under req.Lock (a marshal error returns)
Rq_SetData_appendRR(g) ==
    /\ reqCall[g] = "sd_append"
    /\ \E marshalOk \in BOOLEAN :
          RRActions' = IF marshalOk THEN appendRR(RRActions, "setdata") ELSE RRActions
    /\ reqCall' = [reqCall EXCEPT ![g] = "idle"]
    /\ UNCHANGED <<reqFields, IsDone, AuthImpl, wire, opsLeft, lastCall, rqOther>>

NextRq ==
    \E g \in Goroutines :
       \/ \E op \in {"Done", "SetData"} : Rq_call(g, op)
       \/ Rq_Done_NoAuth(g)
       \/ Rq_Done_send(g)
       \/ Rq_SetData_appendRR(g)

SpecRq == InitReq /\ [][NextRq]_vars

\* C38: whatever goroutines call Done and SetData on one request, at most one
\* frame with responseDone is sent, and nothing is in the buffer once the
\* request is done
C38_DoneAtomic ==
    /\ Cardinality({i \in DOMAIN wire : wire[i].done}) <= 1
    /\ IsDone => RRActions = <<>>

\* ---------------------------------------------------------------------
\* DashFSClient.WatchFile: the throttling loop
\* ---------------------------------------------------------------------

\* how far the clock runs
MaxTime == 6

\* watchOpts.ThrottleTime in units of the clock
ThrottleTime == 2

watchOther == <<clientVars, mainVars, taskVars, histVars, reqVars, tmVars, rtVars, mwHist, linkVars, blobVars, unaryVars, fsVars, goVars, rqVars>>

\* runWatchedSetPath and lastRun = time.Now()
runWatchedSetPath(wt) == [wt EXCEPT !.lastRun = wt.now, !.needsRun = FALSE, !.unserved = FALSE]

\* time passes; a timer whose duration is over puts a value on its channel
Watch_Tick ==
    /\ watch.pc = "select"
    /\ watch.now < MaxTime
    /\ watch' = [watch EXCEPT !.now = @ + 1,
                   !.timer = IF @ = "pending" /\ watch.now + 1 >= watch.timerAt THEN "fired" ELSE @]
    /\ UNCHANGED watchOther

\* case event := <-watcher.Events, a Write or Create (lines 225-241)
Watch_event ==
    /\ watch.pc = "select"
    /\ LET dur == watch.now - watch.lastRun
       IN watch' = IF dur < ThrottleTime
                     THEN [watch EXCEPT !.needsRun = TRUE, !.unserved = TRUE,
                             !.timer = IF @ = "nil" THEN "pending" ELSE @,
                             !.timerAt = IF watch.timer = "nil" THEN watch.now + (ThrottleTime - dur) ELSE @]
                   ELSE runWatchedSetPath(watch)
    /\ UNCHANGED watchOther

\* case <-timerCh (lines 250-256): taken when the timer is not nil and its
\* channel holds a value; a timer that is kept has an empty channel from then on
Watch_timer ==
    /\ watch.pc = "select"
    /\ watch.timer = "fired"
    /\ watch' = IF watch.needsRun
                  THEN [runWatchedSetPath(watch) EXCEPT !.timer = "nil"]
                ELSE [watch EXCEPT !.timer = "drained"]
    /\ UNCHANGED watchOther

\* the watcher's channels closed, a watcher error, ShutdownCh: the goroutine returns
Watch_return ==
    /\ watch.pc = "select"
    /\ watch' = [watch EXCEPT !.pc = "returned"]
    /\ UNCHANGED watchOther

InitWatch == Init

NextWatch == Watch_Tick \/ Watch_event \/ Watch_timer \/ Watch_return

SpecWatch == InitWatch /\ [][NextWatch]_vars

\* C39: while the loop runs, a pending run has a timer that will still fire,
\* and two runs are never closer together than ThrottleTime
C39_NoChangeLost ==
    /\ []((watch.pc = "select" /\ watch.needsRun) => watch.timer \in {"pending", "fired"})
    /\ [][watch'.lastRun # watch.lastRun => watch'.lastRun - watch.lastRun >= ThrottleTime]_vars

====
